---- MODULE Spec2Model ----
(***************************************************************************)
(* Dynamic AI Leadership Assessment (src/app.py): the Streamlit session    *)
(* state, the script runs of main(), the retry loops of the generation     *)
(* client, the response parser and the four content generators.            *)
(*                                                                         *)
(* A Python str is a sequence of one-character strings; a decoded JSON     *)
(* value is a tagged record [t, v]; a Python dict is a function on its     *)
(* keys.  One script run of main() is one action, except that it pauses    *)
(* at every blocking generate_content request.                             *)
(***************************************************************************)
EXTENDS Integers, Sequences, FiniteSets, TLC

(***************************************************************************)
(* Bounds of the model                                                     *)
(***************************************************************************)
\* the user changes the radio of the questions q0 .. q(NumEditable-1) only,
\* and picks one of the first NumChoices options of a radio
NumEditable == 1
NumChoices == 2

(***************************************************************************)
(* Python str helpers                                                      *)
(***************************************************************************)
Rep(n, c) == [i \in 1..n |-> c]

\* the character U+0060 (grave accent), which a TLA+ string cannot hold
Backtick == "GRAVE"

\* str.isspace() characters that occur in the texts of the model
IsSpace(c) == c \in {" ", "\n", "\t", "\r"}

\* index of the first character at or after i that is no whitespace
SkipSpace(s, i) ==
  CHOOSE j \in i..(Len(s) + 1) :
    /\ (j = Len(s) + 1 \/ ~IsSpace(s[j]))
    /\ \A k \in i..(j - 1) : IsSpace(s[k])

\* index of the last character that is no whitespace, 0 when there is none
LastNonSpace(s) ==
  LET n == Len(s)
      d == CHOOSE j \in 0..n :
             /\ (j = n \/ ~IsSpace(s[n - j]))
             /\ \A k \in 0..(j - 1) : IsSpace(s[n - k])
  IN n - d

\* str.strip()
strip(s) ==
  LET lo == SkipSpace(s, 1)
      hi == LastNonSpace(s)
  IN IF lo > hi THEN << >> ELSE SubSeq(s, lo, hi)

\* len(s.split()): the number of maximal runs of non-whitespace characters
WordCount(s) ==
  Cardinality({i \in 1..Len(s) : ~IsSpace(s[i]) /\ (i = 1 \/ IsSpace(s[i - 1]))})

\* the characters of s at the indexes lo..hi that are not in R, in order
RECURSIVE KeepIdx(_, _, _, _)
KeepIdx(s, lo, hi, R) ==
  IF lo > hi THEN << >>
  ELSE IF lo = hi THEN (IF lo \in R THEN << >> ELSE <<s[lo]>>)
  ELSE LET mid == (lo + hi) \div 2
       IN KeepIdx(s, lo, mid, R) \o KeepIdx(s, mid + 1, hi, R)

\* does the literal w occur in s at index i
At(s, i, w) ==
  /\ i >= 1
  /\ i + Len(w) - 1 <= Len(s)
  /\ \A k \in 1..Len(w) : s[i + k - 1] = w[k]

\* a in b (substring test of Python str)
Contains(b, a) == \E i \in 1..(Len(b) + 1) : At(b, i, a)

(***************************************************************************)
(* Decoded JSON values (json.loads): [t, v] with t the Python type.        *)
(* A number is kept in tenths (8.5 is 85); the texts of the model carry at *)
(* most one fractional digit and no escape sequence or exponent.           *)
(***************************************************************************)
JStr(s)  == [t |-> "str",  v |-> s]
JNum(n)  == [t |-> "num",  v |-> n]
JList(s) == [t |-> "list", v |-> s]
JDict(f) == [t |-> "dict", v |-> f]
JBool(b) == [t |-> "bool", v |-> b]
JNull    == [t |-> "null", v |-> 0]

EmptyDict == [k \in {} |-> JNull]

ParseFail == [ok |-> FALSE, v |-> JNull, i |-> 0]
ParseOk(v, i) == [ok |-> TRUE, v |-> v, i |-> i]

Digits == <<"0", "1", "2", "3", "4", "5", "6", "7", "8", "9">>
IsDigit(c) == \E k \in 1..10 : Digits[k] = c
DigitVal(c) == (CHOOSE k \in 1..10 : Digits[k] = c) - 1

\* index of the first character at or after i that is no digit
DigitsEnd(s, i) ==
  CHOOSE j \in i..(Len(s) + 1) :
    /\ (j = Len(s) + 1 \/ ~IsDigit(s[j]))
    /\ \A k \in i..(j - 1) : IsDigit(s[k])

RECURSIVE NatVal(_, _, _)
NatVal(s, lo, hi) ==
  IF lo > hi THEN 0 ELSE NatVal(s, lo, hi - 1) * 10 + DigitVal(s[hi])

\* a JSON number starting at i: -? int (. digits)?
ParseNumber(s, i) ==
  LET neg == s[i] = "-"
      a   == IF neg THEN i + 1 ELSE i
      b   == DigitsEnd(s, a)
      hasFrac == b <= Len(s) /\ s[b] = "."
      c   == IF hasFrac THEN DigitsEnd(s, b + 1) ELSE b
      tenths == NatVal(s, a, b - 1) * 10
                + (IF hasFrac /\ c > b + 1 THEN DigitVal(s[b + 1]) ELSE 0)
  IN IF b = a \/ (b - a > 1 /\ s[a] = "0") \/ (hasFrac /\ c = b + 1)
     THEN ParseFail
     ELSE ParseOk(JNum(IF neg THEN 0 - tenths ELSE tenths), c)

\* a JSON string starting at the quote at i
ParseString(s, i) ==
  LET close == {j \in (i + 1)..Len(s) : s[j] = "\""}
  IN IF close = {} THEN ParseFail
     ELSE LET j == CHOOSE x \in close : \A y \in close : x <= y
              body == SubSeq(s, i + 1, j - 1)
          IN IF \E k \in 1..Len(body) : body[k] \in {"\\", "\n", "\t", "\r"}
             THEN ParseFail
             ELSE ParseOk(JStr(body), j + 1)

ParseLiteral(s, i) ==
  IF At(s, i, <<"n", "u", "l", "l">>) THEN ParseOk(JNull, i + 4)
  ELSE IF At(s, i, <<"t", "r", "u", "e">>) THEN ParseOk(JBool(TRUE), i + 4)
  ELSE IF At(s, i, <<"f", "a", "l", "s", "e">>) THEN ParseOk(JBool(FALSE), i + 5)
  ELSE ParseFail

RECURSIVE ParseValue(_, _), ParseElems(_, _, _), ParseMembers(_, _, _)

\* the JSON value that starts at or after i (whitespace skipped)
ParseValue(s, i0) ==
  LET i == SkipSpace(s, i0)
  IN IF i > Len(s) THEN ParseFail
     ELSE IF s[i] = "\"" THEN ParseString(s, i)
     ELSE IF s[i] = "[" THEN
       LET j == SkipSpace(s, i + 1)
       IN IF j <= Len(s) /\ s[j] = "]" THEN ParseOk(JList(<< >>), j + 1)
          ELSE ParseElems(s, i + 1, << >>)
     ELSE IF s[i] = "{" THEN
       LET j == SkipSpace(s, i + 1)
       IN IF j <= Len(s) /\ s[j] = "}" THEN ParseOk(JDict(EmptyDict), j + 1)
          ELSE ParseMembers(s, i + 1, EmptyDict)
     ELSE IF s[i] = "-" \/ IsDigit(s[i]) THEN ParseNumber(s, i)
     ELSE ParseLiteral(s, i)

\* the elements of an array after its "[" or a ",", acc the ones read so far
ParseElems(s, i, acc) ==
  LET r == ParseValue(s, i)
  IN IF ~r.ok THEN ParseFail
     ELSE LET j == SkipSpace(s, r.i)
          IN IF j > Len(s) THEN ParseFail
             ELSE IF s[j] = "," THEN ParseElems(s, j + 1, Append(acc, r.v))
             ELSE IF s[j] = "]" THEN ParseOk(JList(Append(acc, r.v)), j + 1)
             ELSE ParseFail

\* the members of an object; a repeated key keeps its last value
ParseMembers(s, i, acc) ==
  LET k0 == SkipSpace(s, i)
  IN IF k0 > Len(s) \/ s[k0] # "\"" THEN ParseFail
     ELSE LET key == ParseString(s, k0)
          IN IF ~key.ok THEN ParseFail
             ELSE LET c == SkipSpace(s, key.i)
                  IN IF c > Len(s) \/ s[c] # ":" THEN ParseFail
                     ELSE LET r == ParseValue(s, c + 1)
                          IN IF ~r.ok THEN ParseFail
                             ELSE LET j == SkipSpace(s, r.i)
                                      acc2 == (key.v.v :> r.v) @@ acc
                                  IN IF j > Len(s) THEN ParseFail
                                     ELSE IF s[j] = "," THEN ParseMembers(s, j + 1, acc2)
                                     ELSE IF s[j] = "}" THEN ParseOk(JDict(acc2), j + 1)
                                     ELSE ParseFail

\* json.loads(text): [ok, v]; not ok is json.JSONDecodeError
json_loads(s) ==
  LET r == ParseValue(s, 1)
  IN IF r.ok /\ SkipSpace(s, r.i) > Len(s)
     THEN [ok |-> TRUE, v |-> r.v]
     ELSE [ok |-> FALSE, v |-> JNull]

(***************************************************************************)
(* Response parser                                                         *)
(***************************************************************************)
\* the matches of the first re.sub: every occurrence of json
JsonMatches(s) == {i \in 1..Len(s) : At(s, i, <<"j", "s", "o", "n">>)}

\* start of the run of backticks that holds index i
RunStart(s, i) == CHOOSE j \in 1..i : \A k \in j..i : s[k] = Backtick

\* the matches of the second re.sub (three backticks): leftmost, not overlapping
FenceMatches(s) ==
  {i \in 1..Len(s) : At(s, i, <<Backtick, Backtick, Backtick>>) /\ (i - RunStart(s, i)) % 3 = 0}

\* the indexes a match of width w at each index of M covers, with the newline after it
Covered(s, M, w) ==
  UNION {(i..(i + w - 1)) \cup
         (IF i + w <= Len(s) /\ s[i + w] = "\n" THEN {i + w} ELSE {}) : i \in M}

re_sub_json(s) == KeepIdx(s, 1, Len(s), Covered(s, JsonMatches(s), 4))
re_sub_fence(s) == KeepIdx(s, 1, Len(s), Covered(s, FenceMatches(s), 3))

\* _clean_and_parse_json: [ok, v]; not ok is the raised Exception
clean_and_parse_json(text) == json_loads(strip(re_sub_fence(re_sub_json(text))))

(***************************************************************************)
(* Replies of the generation capability that the model draws from          *)
(***************************************************************************)
K_question == <<"q", "u", "e", "s", "t", "i", "o", "n">>
K_pillar   == <<"p", "i", "l", "l", "a", "r">>
K_options  == <<"o", "p", "t", "i", "o", "n", "s">>

Quoted(s) == <<"\"">> \o s \o <<"\"">>

RECURSIVE Join(_)
Join(items) ==
  IF Len(items) = 0 THEN << >>
  ELSE IF Len(items) = 1 THEN items[1]
  ELSE items[1] \o <<",">> \o Join(Tail(items))

ArrayText(items) == <<"[">> \o Join(items) \o <<"]">>
ObjectText(members) == <<"{">> \o Join(members) \o <<"}">>
Member(k, valueText) == Quoted(k) \o <<":">> \o valueText
Fenced(body) ==
  <<Backtick, Backtick, Backtick, "j", "s", "o", "n", "\n">> \o body
    \o <<"\n", Backtick, Backtick, Backtick>>

\* {"question": q, "pillar": p}
YNItemText(q, p) ==
  ObjectText(<<Member(K_question, Quoted(q)), Member(K_pillar, Quoted(p))>>)

\* {"question": q, "options": opts, "pillar": p}
MCQItemText(q, optsText, p) ==
  ObjectText(<<Member(K_question, Quoted(q)), Member(K_options, optsText),
               Member(K_pillar, Quoted(p))>>)

QText(i) == <<"Q", Digits[i + 1]>>
PText(i) == <<"P", Digits[i + 1]>>
OptsText(i) ==
  ArrayText([k \in 1..4 |-> Quoted(<<"o", Digits[i + 1], Digits[k + 1]>>)])
NumOptsText == ArrayText([k \in 1..4 |-> <<Digits[k + 1]>>])

\* the reply the prompt asks for, in a code fence
YN_ok == Fenced(ArrayText([i \in 1..7 |-> YNItemText(QText(i), PText(i))]))
\* six items only
YN_six == ArrayText([i \in 1..6 |-> YNItemText(QText(i), PText(i))])
\* seven items: the first with a number as question and null as pillar, the
\* third with an empty question and an empty pillar
YN_loose ==
  ArrayText([i \in 1..7 |->
    IF i = 1 THEN ObjectText(<<Member(K_question, <<"5">>),
                               Member(K_pillar, <<"n", "u", "l", "l">>)>>)
    ELSE IF i = 3 THEN YNItemText(<< >>, << >>)
    ELSE YNItemText(QText(i), PText(i))])
\* seven items, the last without its pillar
YN_nopillar ==
  ArrayText([i \in 1..7 |->
    IF i = 7 THEN ObjectText(<<Member(K_question, Quoted(QText(i)))>>)
    ELSE YNItemText(QText(i), PText(i))])
\* seven strings
YN_strings == ArrayText([i \in 1..7 |-> Quoted(QText(i))])
\* an object in place of the array
YN_object == YNItemText(QText(1), PText(1))
\* a reply cut off in the middle
YN_cut == SubSeq(YN_six, 1, 40)
\* one item whose question is the word json, without a code fence
YN_json == ArrayText(<<YNItemText(<<"j", "s", "o", "n">>, PText(1))>>)

MCQ_ok ==
  Fenced(ArrayText([i \in 1..7 |-> MCQItemText(QText(i), OptsText(i), PText(i))]))
MCQ_six == ArrayText([i \in 1..6 |-> MCQItemText(QText(i), OptsText(i), PText(i))])
\* the second item has three options
MCQ_three ==
  ArrayText([i \in 1..7 |->
    MCQItemText(QText(i),
                IF i = 2 THEN ArrayText([k \in 1..3 |-> Quoted(<<"o", Digits[k + 1]>>)])
                ELSE OptsText(i),
                PText(i))])
\* the second item has four numbers as options
MCQ_numbers ==
  ArrayText([i \in 1..7 |->
    MCQItemText(QText(i), IF i = 2 THEN NumOptsText ELSE OptsText(i), PText(i))])
\* the fifth item is a Yes/No/Maybe item: no options
MCQ_nooptions ==
  ArrayText([i \in 1..7 |->
    IF i = 5 THEN YNItemText(QText(i), PText(i))
    ELSE MCQItemText(QText(i), OptsText(i), PText(i))])
\* the fourth item has a number where the options go
MCQ_scalar ==
  ArrayText([i \in 1..7 |->
    MCQItemText(QText(i), IF i = 4 THEN <<"4">> ELSE OptsText(i), PText(i))])

(***************************************************************************)
(* String literals of the source, as Python str                            *)
(***************************************************************************)
P_strategic ==
  <<"S", "t", "r", "a", "t", "e", "g", "i", "c", " ", "T", "h", "i", "n",
    "k", "i", "n", "g">>
P_change ==
  <<"L", "e", "a", "d", "i", "n", "g", " ", "C", "h", "a", "n", "g", "e",
    " ", "&", " ", "A", "d", "a", "p", "t", "a", "b", "i", "l", "i", "t",
    "y">>
P_communication ==
  <<"E", "f", "f", "e", "c", "t", "i", "v", "e", " ", "C", "o", "m", "m",
    "u", "n", "i", "c", "a", "t", "i", "o", "n", " ", "&", " ", "I", "n",
    "f", "l", "u", "e", "n", "c", "e">>
P_empowerment ==
  <<"E", "m", "p", "o", "w", "e", "r", "m", "e", "n", "t", " ", "&", " ",
    "M", "o", "t", "i", "v", "a", "t", "i", "o", "n">>
P_accountability ==
  <<"R", "e", "s", "p", "o", "n", "s", "i", "b", "i", "l", "i", "t", "y",
    " ", "&", " ", "A", "c", "c", "o", "u", "n", "t", "a", "b", "i", "l",
    "i", "t", "y">>
P_innovation ==
  <<"I", "n", "n", "o", "v", "a", "t", "i", "o", "n", " ", "&", " ", "C",
    "o", "n", "t", "i", "n", "u", "o", "u", "s", " ", "I", "m", "p", "r",
    "o", "v", "e", "m", "e", "n", "t">>
K_report_title ==
  <<"r", "e", "p", "o", "r", "t", "_", "t", "i", "t", "l", "e">>
K_executive_summary ==
  <<"e", "x", "e", "c", "u", "t", "i", "v", "e", "_", "s", "u", "m", "m",
    "a", "r", "y">>
K_overall_leadership_score ==
  <<"o", "v", "e", "r", "a", "l", "l", "_", "l", "e", "a", "d", "e", "r",
    "s", "h", "i", "p", "_", "s", "c", "o", "r", "e">>
K_leadership_profile_breakdown ==
  <<"l", "e", "a", "d", "e", "r", "s", "h", "i", "p", "_", "p", "r", "o",
    "f", "i", "l", "e", "_", "b", "r", "e", "a", "k", "d", "o", "w", "n">>
K_overall_strengths ==
  <<"o", "v", "e", "r", "a", "l", "l", "_", "s", "t", "r", "e", "n", "g",
    "t", "h", "s">>
K_overall_development_areas ==
  <<"o", "v", "e", "r", "a", "l", "l", "_", "d", "e", "v", "e", "l", "o",
    "p", "m", "e", "n", "t", "_", "a", "r", "e", "a", "s">>
K_detailed_insights ==
  <<"d", "e", "t", "a", "i", "l", "e", "d", "_", "i", "n", "s", "i", "g",
    "h", "t", "s", "_", "f", "r", "o", "m", "_", "r", "e", "s", "p", "o",
    "n", "s", "e", "_", "t", "y", "p", "e", "s">>
K_personalized_recommendations ==
  <<"p", "e", "r", "s", "o", "n", "a", "l", "i", "z", "e", "d", "_", "r",
    "e", "c", "o", "m", "m", "e", "n", "d", "a", "t", "i", "o", "n", "s">>
K_personal_development_plan ==
  <<"p", "e", "r", "s", "o", "n", "a", "l", "_", "d", "e", "v", "e", "l",
    "o", "p", "m", "e", "n", "t", "_", "p", "l", "a", "n">>
K_cultural_and_industry_nuances ==
  <<"c", "u", "l", "t", "u", "r", "a", "l", "_", "a", "n", "d", "_", "i",
    "n", "d", "u", "s", "t", "r", "y", "_", "n", "u", "a", "n", "c", "e",
    "s">>
K_closing_remarks ==
  <<"c", "l", "o", "s", "i", "n", "g", "_", "r", "e", "m", "a", "r", "k",
    "s">>
K_score ==
  <<"s", "c", "o", "r", "e">>
K_justification ==
  <<"j", "u", "s", "t", "i", "f", "i", "c", "a", "t", "i", "o", "n">>
K_analysis ==
  <<"a", "n", "a", "l", "y", "s", "i", "s">>
K_evidence ==
  <<"e", "v", "i", "d", "e", "n", "c", "e", "_", "f", "r", "o", "m", "_",
    "r", "e", "s", "p", "o", "n", "s", "e", "s">>
K_30_day_goals ==
  <<"3", "0", "_", "d", "a", "y", "_", "g", "o", "a", "l", "s">>
K_90_day_goals ==
  <<"9", "0", "_", "d", "a", "y", "_", "g", "o", "a", "l", "s">>
K_6_month_goals ==
  <<"6", "_", "m", "o", "n", "t", "h", "_", "g", "o", "a", "l", "s">>
AnalysisFor ==
  <<"A", "n", "a", "l", "y", "s", "i", "s", " ", "f", "o", "r", " ">>
NotAvailable ==
  <<" ", "n", "o", "t", " ", "a", "v", "a", "i", "l", "a", "b", "l", "e">>
API_TEST_SUCCESS ==
  <<"A", "P", "I", "_", "T", "E", "S", "T", "_", "S", "U", "C", "C", "E",
    "S", "S">>

\* CONTENT['en']['pillars']
pillars_en ==
  <<P_strategic, P_change, P_communication, P_empowerment, P_accountability,
    P_innovation>>
\* CONTENT['ar']['pillars'], transliterated
pillars_ar ==
  <<<<"a", "r", "1">>, <<"a", "r", "2">>, <<"a", "r", "3">>, <<"a", "r", "4">>,
    <<"a", "r", "5">>, <<"a", "r", "6">>>>

\* CONTENT[lang]: the entries the workflow reads (the Arabic ones transliterated)
CONTENT(lang) ==
  IF lang = "en"
  THEN [yes |-> "Yes", no |-> "No", maybe |-> "Maybe", pillars |-> pillars_en]
  ELSE [yes |-> "naam", no |-> "la", maybe |-> "rubbama", pillars |-> pillars_ar]

\* the required top-level keys of the report, in the order of the source
required_keys ==
  <<K_report_title, K_executive_summary, K_overall_leadership_score,
    K_leadership_profile_breakdown, K_overall_strengths,
    K_overall_development_areas, K_detailed_insights,
    K_personalized_recommendations, K_personal_development_plan,
    K_cultural_and_industry_nuances, K_closing_remarks>>

(***************************************************************************)
(* Python operations on decoded values.  A result [ok, ...] with ok FALSE  *)
(* is a raised exception (TypeError, KeyError, AttributeError).            *)
(***************************************************************************)
\* key in x
PyIn(key, x) ==
  IF x.t = "dict" THEN [ok |-> TRUE, b |-> key \in DOMAIN x.v]
  ELSE IF x.t = "str" THEN [ok |-> TRUE, b |-> Contains(x.v, key)]
  ELSE IF x.t = "list" THEN [ok |-> TRUE, b |-> \E k \in 1..Len(x.v) : x.v[k] = JStr(key)]
  ELSE [ok |-> FALSE, b |-> FALSE]

\* len(x)
PyLen(x) ==
  IF x.t \in {"str", "list"} THEN [ok |-> TRUE, n |-> Len(x.v)]
  ELSE IF x.t = "dict" THEN [ok |-> TRUE, n |-> Cardinality(DOMAIN x.v)]
  ELSE [ok |-> FALSE, n |-> 0]

\* bool(x)
Truthy(x) ==
  IF x.t \in {"str", "list"} THEN x.v # << >>
  ELSE IF x.t = "dict" THEN DOMAIN x.v # {}
  ELSE IF x.t = "num" THEN x.v # 0
  ELSE IF x.t = "bool" THEN x.v
  ELSE FALSE

(***************************************************************************)
(* Content generators, from the text that the generation client returned   *)
(***************************************************************************)
GenFail == [ok |-> FALSE, v |-> << >>]
GenOk(v) == [ok |-> TRUE, v |-> v]

\* the per-item check of the Yes/No/Maybe generator
yes_no_item_ok(q) ==
  q.t = "dict" /\ K_question \in DOMAIN q.v /\ K_pillar \in DOMAIN q.v

\* a variant of the Yes/No/Maybe generator without the test of the count
yes_no_any_count(response_text) ==
  LET parsed == clean_and_parse_json(response_text)
  IN IF ~parsed.ok THEN GenFail
     ELSE LET questions == parsed.v
          IN IF questions.t # "list" THEN GenFail
             ELSE IF \E k \in 1..Len(questions.v) : ~yes_no_item_ok(questions.v[k])
             THEN GenFail
             ELSE GenOk(questions.v)

\* generate_comprehensive_yes_no_questions after its API call
generate_comprehensive_yes_no_questions(response_text) ==
  LET parsed == clean_and_parse_json(response_text)
  IN IF ~parsed.ok THEN GenFail
     ELSE LET questions == parsed.v
          IN IF questions.t # "list" \/ Len(questions.v) # 7 THEN GenFail
             ELSE IF \E k \in 1..7 : ~yes_no_item_ok(questions.v[k]) THEN GenFail
             ELSE GenOk(questions.v)

\* the per-item check of the MCQ generator; an item that is no dict raises at
\* the key test or at q['options'], options without a length raise at len()
mcq_item_ok(q) ==
  /\ q.t = "dict"
  /\ \A key \in {K_question, K_options, K_pillar} : key \in DOMAIN q.v
  /\ PyLen(q.v[K_options]).ok
  /\ PyLen(q.v[K_options]).n = 4

\* generate_comprehensive_mcq_questions after its API call
generate_comprehensive_mcq_questions(response_text) ==
  LET parsed == clean_and_parse_json(response_text)
  IN IF ~parsed.ok THEN GenFail
     ELSE LET questions == parsed.v
          IN IF questions.t # "list" \/ Len(questions.v) # 7 THEN GenFail
             ELSE IF \E k \in 1..7 : ~mcq_item_ok(questions.v[k]) THEN GenFail
             ELSE GenOk(questions.v)

\* the length floor of the scenario
scenario_min_len == 150

\* a variant of generate_personalized_scenario that rejects the empty text only
generate_personalized_scenario_nonempty(scenario) ==
  IF scenario = << >> THEN GenFail ELSE GenOk(scenario)

\* generate_personalized_scenario after its API call
generate_personalized_scenario(scenario) ==
  IF Len(scenario) < scenario_min_len THEN GenFail ELSE GenOk(scenario)

\* f"Analysis for {key} not available"
Placeholder(key) == JStr(AnalysisFor \o key \o NotAvailable)

\* scores are kept in tenths: 1.0, 10.0 and the default 7.0
score_min == 10
score_max == 100
score_default == 70

\* not isinstance(score, (int, float)) or not (1.0 <= score <= 10.0);
\* a bool is an int, True is 1 and False is 0
score_invalid(score) ==
  IF score.t = "num" THEN ~(score_min <= score.v /\ score.v <= score_max)
  ELSE IF score.t = "bool" THEN ~score.v
  ELSE TRUE

\* does "if 'score' in x: score = x['score'] ..." raise
score_check_raises(x) ==
  \/ ~PyIn(K_score, x).ok
  \/ (PyIn(K_score, x).b /\ x.t # "dict")

\* x after "if 'score' in x: if <invalid>: x['score'] = 7.0", for x that does not raise
score_fixed(x) ==
  IF x.t = "dict" /\ K_score \in DOMAIN x.v /\ score_invalid(x.v[K_score])
  THEN JDict([x.v EXCEPT ![K_score] = JNum(score_default)])
  ELSE x

\* does the pillar loop raise at this pillar of the breakdown y
pillar_raises(y, pillar) ==
  \/ ~PyIn(pillar, y).ok
  \/ (PyIn(pillar, y).b /\ (y.t # "dict" \/ score_check_raises(y.v[pillar])))

\* the breakdown after the pillar loop, for y that does not raise
breakdown_fixed(y) ==
  IF y.t # "dict" THEN y
  ELSE JDict([p \in DOMAIN y.v |->
         IF \E k \in 1..Len(pillars_en) : pillars_en[k] = p
         THEN score_fixed(y.v[p]) ELSE y.v[p]])

\* the report with every missing required key set to its placeholder
with_placeholders(d) ==
  LET req == {required_keys[k] : k \in 1..Len(required_keys)}
  IN [key \in DOMAIN d \cup req |-> IF key \in DOMAIN d THEN d[key] ELSE Placeholder(key)]

\* generate_comprehensive_detailed_report after its API call; a decoded value
\* that is no dict raises at the key tests or at the item assignment
generate_comprehensive_detailed_report(response_text) ==
  LET parsed == clean_and_parse_json(response_text)
  IN IF ~parsed.ok \/ parsed.v.t # "dict" THEN GenFail
     ELSE LET d1 == with_placeholders(parsed.v.v)
              overall == d1[K_overall_leadership_score]
              breakdown == d1[K_leadership_profile_breakdown]
          IN IF score_check_raises(overall) THEN GenFail
             ELSE IF \E k \in 1..Len(pillars_en) : pillar_raises(breakdown, pillars_en[k])
             THEN GenFail
             ELSE GenOk([d1 EXCEPT ![K_overall_leadership_score] = score_fixed(overall),
                                   ![K_leadership_profile_breakdown] = breakdown_fixed(breakdown)])

(***************************************************************************)
(* More replies: scenario texts, report texts, probe replies               *)
(***************************************************************************)
Scen_ok     == Rep(150, "s")
Scen_short  == Rep(149, "s")
\* 149 characters between a blank and a newline
Scen_padded == <<" ">> \o Rep(149, "s") \o <<"\n">>
Blank       == <<" ">>

Txt(c) == Quoted(<<c>>)

PillarText(p, scoreText) ==
  Member(p, ObjectText(<<Member(K_score, scoreText), Member(K_analysis, Txt("a")),
                         Member(K_evidence, ArrayText(<<Txt("e")>>))>>))

\* a report with every required key, the six pillars and scores in range
Report_ok ==
  Fenced(ObjectText(<<
    Member(K_report_title, Txt("T")),
    Member(K_executive_summary, Txt("S")),
    Member(K_overall_leadership_score,
           ObjectText(<<Member(K_score, <<"8", ".", "5">>),
                        Member(K_justification, Txt("J"))>>)),
    Member(K_leadership_profile_breakdown,
           ObjectText([k \in 1..6 |-> PillarText(pillars_en[k], <<Digits[k + 4]>>)])),
    Member(K_overall_strengths, Txt("G")),
    Member(K_overall_development_areas, Txt("D")),
    Member(K_detailed_insights, ObjectText(<<Member(<<"y", "n">>, Txt("Y"))>>)),
    Member(K_personalized_recommendations, ArrayText(<<Txt("R")>>)),
    Member(K_personal_development_plan,
           ObjectText(<<Member(K_30_day_goals, ArrayText(<<Txt("1")>>)),
                        Member(K_90_day_goals, ArrayText(<<Txt("2")>>)),
                        Member(K_6_month_goals, ArrayText(<<Txt("3")>>))>>)),
    Member(K_cultural_and_industry_nuances, Txt("C")),
    Member(K_closing_remarks, Txt("Z"))>>))
\* a report cut off in the middle
Report_cut == SubSeq(Report_ok, 1, 60)

\* a report text: the members for the overall score (none or one), the names
\* of the pillars of the breakdown and the text of the score of each
ReportText(overall, pillars, scores) ==
  Fenced(ObjectText(
    <<Member(K_report_title, Txt("T")),
      Member(K_executive_summary, Txt("S"))>>
    \o overall \o
    <<Member(K_leadership_profile_breakdown,
             ObjectText([k \in 1..Len(pillars) |-> PillarText(pillars[k], scores[k])])),
      Member(K_overall_strengths, Txt("G")),
      Member(K_overall_development_areas, Txt("D")),
      Member(K_detailed_insights, ObjectText(<<Member(<<"y", "n">>, Txt("Y"))>>)),
      Member(K_personalized_recommendations, ArrayText(<<Txt("R")>>)),
      Member(K_personal_development_plan,
             ObjectText(<<Member(K_30_day_goals, ArrayText(<<Txt("1")>>)),
                          Member(K_90_day_goals, ArrayText(<<Txt("2")>>)),
                          Member(K_6_month_goals, ArrayText(<<Txt("3")>>))>>)),
      Member(K_cultural_and_industry_nuances, Txt("C")),
      Member(K_closing_remarks, Txt("Z"))>>))

OverallText(scoreText) ==
  Member(K_overall_leadership_score,
         ObjectText(<<Member(K_score, scoreText), Member(K_justification, Txt("J"))>>))

\* a report of an Arabic session: the pillars carry their Arabic names, the
\* first has the score 15, the second the score 0.5
Report_ar ==
  ReportText(<<OverallText(<<"8", ".", "5">>)>>, pillars_ar,
             <<<<"1", "5">>, <<"0", ".", "5">>, <<"7">>, <<"7">>, <<"7">>, <<"7">>>>)
\* a report without the key overall_leadership_score
Report_noscore ==
  ReportText(<< >>, pillars_en, [k \in 1..6 |-> <<"7">>])

\* a report that has the overall score and the six pillars and lacks every
\* other required key
Report_scores_only ==
  Fenced(ObjectText(
    <<OverallText(<<"8", ".", "5">>),
      Member(K_leadership_profile_breakdown,
             ObjectText([k \in 1..6 |-> PillarText(pillars_en[k], <<"7">>)]))>>))

Callers == {"probe", "yes_no", "mcq", "scenario", "report"}

\* the replies the model draws for each caller of generate_content
Replies ==
  [c \in Callers |->
     IF c = "probe" THEN {API_TEST_SUCCESS, <<"O", "K", " ">> \o API_TEST_SUCCESS, <<"h", "i">>}
     ELSE IF c = "yes_no"
          THEN {YN_ok, YN_six, YN_loose, YN_nopillar, YN_strings, YN_object, YN_cut,
                YN_json, Blank}
     ELSE IF c = "mcq"
          THEN {MCQ_ok, MCQ_six, MCQ_three, MCQ_numbers, MCQ_nooptions, MCQ_scalar, Blank}
     ELSE IF c = "scenario" THEN {Scen_ok, Scen_short, Scen_padded, Blank}
     ELSE {Report_ok, Report_cut, Report_ar, Report_noscore, Report_scores_only, Blank}]

\* what one generate_content request does: it raises, it answers without
\* text, or it answers with a text
ApiErrors == {"503 unavailable"}
Outcomes ==
  [c \in Callers |->
     [kind : {"raise"}, text : {<< >>}, err : ApiErrors]
       \cup [kind : {"empty"}, text : {<< >>}, err : {""}]
       \cup [kind : {"text"}, text : Replies[c], err : {""}]]

\* response.text.strip() of every reply
Stripped == [t \in UNION {Replies[c] : c \in Callers} |-> strip(t)]

\* each generator on every text its API call can return, computed once
yes_no_of ==
  [t \in {Stripped[r] : r \in Replies["yes_no"]} |->
     generate_comprehensive_yes_no_questions(t)]
mcq_of ==
  [t \in {Stripped[r] : r \in Replies["mcq"]} |->
     generate_comprehensive_mcq_questions(t)]
scenario_of ==
  [t \in {Stripped[r] : r \in Replies["scenario"]} |->
     generate_personalized_scenario(t)]
report_of ==
  [t \in {Stripped[r] : r \in Replies["report"]} |->
     generate_comprehensive_detailed_report(t)]

(***************************************************************************)
(* State                                                                   *)
(***************************************************************************)
VARIABLES
  \* st.session_state
  language, assessment_phase, user_profile, yes_no_questions, mcq_questions,
  scenario_question, responses, detailed_report, assessment_engine, start_time,
  \* outside the session state: is GEMINI_API_KEY set, and the values of the
  \* widgets of the profile form at its last submission
  api_key, profile_form,
  \* the script run: idle (waiting for the user), rerun (a run is due),
  \* call (inside a retry loop), ret (the retry loop has ended)
  pc,
  \* the retry loop in progress: who called, the loop index, the requests
  \* issued, the sleeps taken, the text of the last reply, the last error
  \* caught and the outcome
  caller, attempt, requests, sleeps, response, last_error, result,
  \* history: successful generations since the last reset, per generator
  generated,
  \* history: the export or reset requested last on the report screen, with
  \* its outcome, or "rejected" after a submit of the scenario screen that
  \* the length test refused; "none" once an assessment has begun
  report_action

session == <<language, assessment_phase, user_profile, yes_no_questions,
             mcq_questions, scenario_question, responses, detailed_report,
             assessment_engine, start_time>>
loop == <<caller, attempt, requests, sleeps, response, last_error, result>>
outside == <<api_key, profile_form>>
vars == <<session, outside, pc, loop, generated, report_action>>

\* assessment_engine is None
None == 0
\* the one DynamicLeadershipAssessment instance of the session
Engine == 1

Phases == {"setup", "profile", "yes_no", "mcq", "scenario", "complete"}
Generators == {"yes_no", "mcq", "scenario", "report"}

NoResult == [status |-> "none", value |-> << >>, cause |-> ""]
NoneGenerated == [g \in Generators |-> 0]
NoForm == << >>

\* initialize_session_state on a fresh session, before the first script run
Init ==
  /\ language = "en"
  /\ assessment_phase = "setup"
  /\ user_profile = << >>
  /\ yes_no_questions = << >>
  /\ mcq_questions = << >>
  /\ scenario_question = << >>
  /\ responses = << >>
  /\ detailed_report = << >>
  /\ assessment_engine = None
  /\ start_time = "None"
  /\ api_key \in BOOLEAN
  /\ profile_form = NoForm
  /\ pc = "rerun"
  /\ caller = "none"
  /\ attempt = 0
  /\ requests = 0
  /\ sleeps = << >>
  /\ response = << >>
  /\ last_error = ""
  /\ result = NoResult
  /\ generated = NoneGenerated
  /\ report_action = "none"

(***************************************************************************)
(* Generation client: the two retry loops                                  *)
(***************************************************************************)
\* max_retries of _make_api_call_with_retry and of _test_connection
max_retries == 3
probe_max_retries == 3

\* a variant of Backoff: a linear delay, 2 * attempt
Backoff_linear(a) == 2 * a

\* time.sleep(2 ** attempt)
Backoff(a) == 2 ^ a

\* a variant of IsLastAttempt: the test is attempt == max_retries
IsLastAttempt_late(a, max) == a = max

\* attempt == max_retries - 1
IsLastAttempt(a, max) == a = max - 1

\* a reply of _make_api_call_with_retry that is returned: response and response.text
ReplyOk(o) == o.kind = "text" /\ o.text # << >>

\* a variant of ProbeOk that asks for the marker alone
ProbeOk_exact(o) == o.kind = "text" /\ o.text = API_TEST_SUCCESS

\* a reply of _test_connection that is accepted: the marker is in the text
ProbeOk(o) == o.kind = "text" /\ Contains(o.text, API_TEST_SUCCESS)

StartCall(c) ==
  /\ pc' = "call"
  /\ caller' = c
  /\ attempt' = 0
  /\ requests' = 0
  /\ sleeps' = << >>
  /\ response' = << >>
  /\ last_error' = ""
  /\ result' = NoResult

EndCall ==
  /\ caller' = "none"
  /\ attempt' = 0
  /\ requests' = 0
  /\ sleeps' = << >>
  /\ response' = << >>
  /\ last_error' = ""
  /\ result' = NoResult

\* the except branch of both loops, e the exception caught
Failed(e, max) ==
  /\ last_error' = e
  /\ IF IsLastAttempt(attempt, max)
     THEN /\ result' = [status |-> "raised", value |-> << >>, cause |-> e]
          /\ pc' = "ret"
          /\ UNCHANGED <<attempt, sleeps>>
     ELSE /\ sleeps' = Append(sleeps, Backoff(attempt))
          /\ attempt' = attempt + 1
          /\ UNCHANGED <<result, pc>>

\* one iteration of the loop of _make_api_call_with_retry
ApiCallAttempt ==
  /\ pc = "call"
  /\ caller \in Generators
  /\ \E o \in Outcomes[caller] :
       /\ requests' = requests + 1
       /\ response' = IF o.kind = "raise" THEN response ELSE o.text
       /\ IF ReplyOk(o)
          THEN /\ result' = [status |-> "returned", value |-> Stripped[o.text], cause |-> ""]
               /\ pc' = "ret"
               /\ UNCHANGED <<attempt, sleeps, last_error>>
          ELSE Failed(IF o.kind = "raise" THEN o.err ELSE "Empty response from API",
                      max_retries)
  /\ UNCHANGED <<session, outside, caller, generated>>
  /\ UNCHANGED report_action

\* one iteration of the loop of _test_connection
TestConnectionAttempt ==
  /\ pc = "call"
  /\ caller = "probe"
  /\ \E o \in Outcomes[caller] :
       /\ requests' = requests + 1
       /\ response' = IF o.kind = "raise" THEN response ELSE o.text
       /\ IF ProbeOk(o)
          THEN /\ result' = [status |-> "returned", value |-> << >>, cause |-> ""]
               /\ pc' = "ret"
               /\ UNCHANGED <<attempt, sleeps, last_error>>
          ELSE Failed(IF o.kind = "raise" THEN o.err ELSE "API test response invalid",
                      probe_max_retries)
  /\ UNCHANGED <<session, outside, caller, generated>>
  /\ UNCHANGED report_action

(***************************************************************************)
(* Rendering of the question screens                                       *)
(***************************************************************************)
\* f'q{i}' for i in 0..6
QKeys == <<"q0", "q1", "q2", "q3", "q4", "q5", "q6">>

Min(S) == CHOOSE x \in S : \A y \in S : x <= y
InSeq(x, s) == \E k \in 1..Len(s) : s[k] = x

\* st.session_state.responses.get(phase, {})
Stored(resp, phase) == IF phase \in DOMAIN resp THEN resp[phase] ELSE << >>

\* [content['yes'], content['no'], content['maybe']]
YNOptions(lang) == <<CONTENT(lang).yes, CONTENT(lang).no, CONTENT(lang).maybe>>

\* the option lists of the radios of the Yes/No/Maybe screen
YNOptionLists(questions, lang) == [k \in 1..Len(questions) |-> YNOptions(lang)]

\* q['options'] of each MCQ question, as st.radio and .index() use it; options
\* that are no list are outside the replies of the model and count as no options
MCQOptionLists(questions) ==
  [k \in 1..Len(questions) |->
     IF questions[k].v[K_options].t = "list" THEN questions[k].v[K_options].v ELSE << >>]

\* the questions (from 0) whose radio cannot be built: the stored answer is
\* not among the options, so options.index(stored) raises ValueError
BadRadios(stored, opts) ==
  {i \in 0..(Len(opts) - 1) :
     \/ opts[i + 1] = << >>
     \/ (QKeys[i + 1] \in DOMAIN stored /\ ~InSeq(stored[QKeys[i + 1]], opts[i + 1]))}

\* a variant of RadioValue that forgets the stored answer
RadioValue_unstored(stored, opts, widget, i) ==
  IF i \in DOMAIN widget THEN widget[i] ELSE opts[i + 1][1]

\* what the radio of question i returns: the user's new choice (widget), else
\* the stored answer, else the first option
RadioValue(stored, opts, widget, i) ==
  IF i \in DOMAIN widget THEN widget[i]
  ELSE IF QKeys[i + 1] \in DOMAIN stored THEN stored[QKeys[i + 1]]
  ELSE opts[i + 1][1]

\* the answers dict after the loop has passed the questions 0..m-1
RadioLoop(stored, opts, widget, m) ==
  LET done == {QKeys[i + 1] : i \in 0..(m - 1)}
  IN [k \in DOMAIN stored \cup done |->
        IF k \in done
        THEN RadioValue(stored, opts, widget, (CHOOSE i \in 0..(m - 1) : QKeys[i + 1] = k))
        ELSE stored[k]]

\* st.session_state.responses after the question loop of a screen: the loop
\* changes the stored dict in place, so the answers written before a ValueError
\* stay; a dict that was not stored yet is lost with the exception
RenderRadios(resp, phase, opts, widget) ==
  LET stored == Stored(resp, phase)
      bad == BadRadios(stored, opts)
  IN IF bad = {} THEN (phase :> RadioLoop(stored, opts, widget, Len(opts))) @@ resp
     ELSE IF phase \in DOMAIN resp
     THEN (phase :> RadioLoop(stored, opts, widget, Min(bad))) @@ resp
     ELSE resp

\* does the question loop of the screen complete
RadiosOk(resp, phase, opts) == BadRadios(Stored(resp, phase), opts) = {}

YNRendered ==
  /\ yes_no_questions # << >>
  /\ RadiosOk(responses, "yes_no", YNOptionLists(yes_no_questions, language))

MCQRendered ==
  /\ mcq_questions # << >>
  /\ RadiosOk(responses, "mcq", MCQOptionLists(mcq_questions))

(***************************************************************************)
(* Rendering of the report screen                                          *)
(***************************************************************************)
Iterable(x) == x.t \in {"str", "list", "dict"}

\* report.get(key, default)
Get(d, key, default) == IF key \in DOMAIN d THEN d[key] ELSE default

\* f"{x:.1f}" accepts a number (a bool is one)
Formattable(x) == x.t \in {"num", "bool"}

\* display_detailed_report raises before it reaches its buttons
display_detailed_report_raises(report, lang, start) ==
  LET overall == Get(report, K_overall_leadership_score, JDict(EmptyDict))
      breakdown == Get(report, K_leadership_profile_breakdown, JDict(EmptyDict))
      insights == Get(report, K_detailed_insights, JDict(EmptyDict))
      recommendations == Get(report, K_personalized_recommendations, JList(<< >>))
      dev_plan == Get(report, K_personal_development_plan, JDict(EmptyDict))
      pillars == CONTENT(lang).pillars
      PillarBad(p) ==
        LET pillar_data == Get(breakdown.v, p, JDict(EmptyDict))
        IN \/ pillar_data.t # "dict"
           \/ LET evidence == Get(pillar_data.v, K_evidence, JList(<< >>))
              IN Truthy(pillar_data) /\ Truthy(evidence) /\ ~Iterable(evidence)
  IN \/ start = "None"
     \/ overall.t # "dict"
     \/ ~Formattable(Get(overall.v, K_score, JNum(score_default)))
     \/ breakdown.t # "dict"
     \/ \E k \in 1..Len(pillars) : PillarBad(pillars[k])
     \/ (Truthy(insights) /\ insights.t # "dict")
     \/ (Truthy(recommendations) /\ ~Iterable(recommendations))
     \/ (Truthy(dev_plan) /\
           \/ dev_plan.t # "dict"
           \/ \E g \in {K_30_day_goals, K_90_day_goals, K_6_month_goals} :
                ~Iterable(Get(dev_plan.v, g, JList(<< >>))))

ReportRendered ==
  ~display_detailed_report_raises(detailed_report, language, start_time)

(***************************************************************************)
(* Script runs of main() with no widget event: the first page load, the    *)
(* run that st.rerun() starts, and the user's Rerun                        *)
(***************************************************************************)
RunDue == pc \in {"rerun", "idle"}

\* check_api_connection: the constructor raises ValueError, no key
LoadNoKey ==
  /\ RunDue
  /\ assessment_engine = None
  /\ ~api_key
  /\ pc' = "idle"
  /\ UNCHANGED <<session, outside, loop, generated>>
  /\ UNCHANGED report_action

\* check_api_connection: the constructor enters _test_connection
LoadProbe ==
  /\ RunDue
  /\ assessment_engine = None
  /\ api_key
  /\ StartCall("probe")
  /\ UNCHANGED <<session, outside, generated>>
  /\ UNCHANGED report_action

\* _test_connection has ended: the engine is stored and the welcome screen
\* drawn, or check_api_connection reports the failure and main returns
ResumeProbe ==
  /\ pc = "ret"
  /\ caller = "probe"
  /\ assessment_engine' = IF result.status = "returned" THEN Engine ELSE assessment_engine
  /\ pc' = "idle"
  /\ EndCall
  /\ UNCHANGED <<language, assessment_phase, user_profile, yes_no_questions,
                 mcq_questions, scenario_question, responses, detailed_report,
                 start_time, outside, generated>>
  /\ UNCHANGED report_action

\* a screen is drawn again and no widget has changed
Redisplay ==
  /\ RunDue
  /\ assessment_engine # None
  /\ \/ assessment_phase \in {"setup", "profile", "complete"} /\ UNCHANGED responses
     \/ /\ assessment_phase = "yes_no"
        /\ yes_no_questions # << >>
        /\ responses' = RenderRadios(responses, "yes_no",
                                     YNOptionLists(yes_no_questions, language), << >>)
     \/ /\ assessment_phase = "mcq"
        /\ mcq_questions # << >>
        /\ responses' = RenderRadios(responses, "mcq",
                                     MCQOptionLists(mcq_questions), << >>)
     \/ /\ assessment_phase = "scenario"
        /\ scenario_question # << >>
        /\ responses' = ("scenario" :> Stored(responses, "scenario")) @@ responses
  /\ pc' = "idle"
  /\ UNCHANGED <<language, assessment_phase, user_profile, yes_no_questions,
                 mcq_questions, scenario_question, detailed_report,
                 assessment_engine, start_time, outside, loop, generated>>
  /\ UNCHANGED report_action

\* a variant of CacheEmpty: the generator is called on every render
CacheEmpty_always(phase) == TRUE

\* the cache of the phase, "not st.session_state.<cache>"
CacheEmpty(phase) ==
  IF phase = "yes_no" THEN yes_no_questions = << >>
  ELSE IF phase = "mcq" THEN mcq_questions = << >>
  ELSE scenario_question = << >>

\* a question screen whose cache is empty calls its generator
EnterPhase ==
  /\ RunDue
  /\ assessment_engine # None
  /\ assessment_phase \in {"yes_no", "mcq", "scenario"}
  /\ CacheEmpty(assessment_phase)
  /\ StartCall(assessment_phase)
  /\ UNCHANGED <<session, outside, generated>>
  /\ UNCHANGED report_action

\* the generator of a question screen has ended: on success the result is
\* cached and the screen drawn, on any failure the screen returns early
ResumeYesNo ==
  /\ pc = "ret"
  /\ caller = "yes_no"
  /\ LET g == IF result.status = "returned"
              THEN yes_no_of[result.value] ELSE GenFail
     IN IF g.ok
        THEN /\ yes_no_questions' = g.v
             /\ responses' = RenderRadios(responses, "yes_no",
                                          YNOptionLists(g.v, language), << >>)
             /\ generated' = [generated EXCEPT !["yes_no"] = @ + 1]
        ELSE UNCHANGED <<yes_no_questions, responses, generated>>
  /\ pc' = "idle"
  /\ EndCall
  /\ UNCHANGED <<language, assessment_phase, user_profile, mcq_questions,
                 scenario_question, detailed_report, assessment_engine, start_time,
                 outside>>
  /\ UNCHANGED report_action

\* a variant of ResumeMCQ whose failure loses the stored answers
ResumeMCQ_loses_answers ==
  /\ pc = "ret"
  /\ caller = "mcq"
  /\ LET g == IF result.status = "returned"
              THEN mcq_of[result.value] ELSE GenFail
     IN IF g.ok
        THEN /\ mcq_questions' = g.v
             /\ responses' = RenderRadios(responses, "mcq", MCQOptionLists(g.v), << >>)
             /\ generated' = [generated EXCEPT !["mcq"] = @ + 1]
        ELSE /\ responses' = << >>
             /\ UNCHANGED <<mcq_questions, generated>>
  /\ pc' = "idle"
  /\ EndCall
  /\ UNCHANGED <<language, assessment_phase, user_profile, yes_no_questions,
                 scenario_question, detailed_report, assessment_engine, start_time,
                 outside>>
  /\ UNCHANGED report_action

ResumeMCQ ==
  /\ pc = "ret"
  /\ caller = "mcq"
  /\ LET g == IF result.status = "returned"
              THEN mcq_of[result.value] ELSE GenFail
     IN IF g.ok
        THEN /\ mcq_questions' = g.v
             /\ responses' = RenderRadios(responses, "mcq", MCQOptionLists(g.v), << >>)
             /\ generated' = [generated EXCEPT !["mcq"] = @ + 1]
        ELSE UNCHANGED <<mcq_questions, responses, generated>>
  /\ pc' = "idle"
  /\ EndCall
  /\ UNCHANGED <<language, assessment_phase, user_profile, yes_no_questions,
                 scenario_question, detailed_report, assessment_engine, start_time,
                 outside>>
  /\ UNCHANGED report_action

ResumeScenario ==
  /\ pc = "ret"
  /\ caller = "scenario"
  /\ LET g == IF result.status = "returned"
              THEN scenario_of[result.value] ELSE GenFail
     IN IF g.ok
        THEN /\ scenario_question' = g.v
             /\ responses' = ("scenario" :> Stored(responses, "scenario")) @@ responses
             /\ generated' = [generated EXCEPT !["scenario"] = @ + 1]
        ELSE UNCHANGED <<scenario_question, responses, generated>>
  /\ pc' = "idle"
  /\ EndCall
  /\ UNCHANGED <<language, assessment_phase, user_profile, yes_no_questions,
                 mcq_questions, detailed_report, assessment_engine, start_time,
                 outside>>
  /\ UNCHANGED report_action

\* a variant of ResumeReport that stores the report and stays on the scenario
\* screen
ResumeReport_stays ==
  /\ pc = "ret"
  /\ caller = "report"
  /\ LET g == IF result.status = "returned"
              THEN report_of[result.value] ELSE GenFail
     IN IF g.ok
        THEN /\ detailed_report' = g.v
             /\ generated' = [generated EXCEPT !["report"] = @ + 1]
        ELSE UNCHANGED <<detailed_report, generated>>
  /\ pc' = "idle"
  /\ EndCall
  /\ UNCHANGED <<language, assessment_phase, user_profile, yes_no_questions,
                 mcq_questions, scenario_question, responses, assessment_engine,
                 start_time, outside>>
  /\ UNCHANGED report_action

\* the report generator has ended: on success the report is stored, the phase
\* set to complete and the script rerun; on failure an error is shown
ResumeReport ==
  /\ pc = "ret"
  /\ caller = "report"
  /\ LET g == IF result.status = "returned"
              THEN report_of[result.value] ELSE GenFail
     IN IF g.ok
        THEN /\ detailed_report' = g.v
             /\ assessment_phase' = "complete"
             /\ generated' = [generated EXCEPT !["report"] = @ + 1]
             /\ pc' = "rerun"
        ELSE /\ pc' = "idle"
             /\ UNCHANGED <<detailed_report, assessment_phase, generated>>
  /\ EndCall
  /\ UNCHANGED <<language, user_profile, yes_no_questions, mcq_questions,
                 scenario_question, responses, assessment_engine, start_time, outside>>
  /\ UNCHANGED report_action

(***************************************************************************)
(* Script runs that a widget of the last drawn screen starts               *)
(***************************************************************************)
\* a variant of Ready that does not ask for the engine
Ready_without_engine == pc = "idle"

\* the user waits on a drawn screen
Ready == pc = "idle" /\ assessment_engine # None

\* a variant of ToggleLanguage that also empties the stored profile
ToggleLanguage_drops_profile ==
  /\ pc = "idle"
  /\ language' = IF language = "en" THEN "ar" ELSE "en"
  /\ user_profile' = << >>
  /\ pc' = "rerun"
  /\ UNCHANGED <<assessment_phase, yes_no_questions, mcq_questions,
                 scenario_question, responses, detailed_report, assessment_engine,
                 start_time, outside, loop, generated>>
  /\ UNCHANGED report_action

\* a variant of ToggleLanguage that empties the cached Yes/No/Maybe questions,
\* so that they are generated again in the new language
ToggleLanguage_clears_questions ==
  /\ pc = "idle"
  /\ language' = IF language = "en" THEN "ar" ELSE "en"
  /\ yes_no_questions' = << >>
  /\ pc' = "rerun"
  /\ UNCHANGED <<assessment_phase, user_profile, mcq_questions,
                 scenario_question, responses, detailed_report, assessment_engine,
                 start_time, outside, loop, generated>>
  /\ UNCHANGED report_action

\* display_language_selector: the other language is chosen
ToggleLanguage ==
  /\ pc = "idle"
  /\ language' = IF language = "en" THEN "ar" ELSE "en"
  /\ pc' = "rerun"
  /\ UNCHANGED <<assessment_phase, user_profile, yes_no_questions, mcq_questions,
                 scenario_question, responses, detailed_report, assessment_engine,
                 start_time, outside, loop, generated>>
  /\ UNCHANGED report_action

\* display_welcome: the begin button
BeginAssessment ==
  /\ Ready
  /\ assessment_phase = "setup"
  /\ assessment_phase' = "profile"
  /\ start_time' = "datetime"
  /\ pc' = "rerun"
  /\ UNCHANGED <<language, user_profile, yes_no_questions, mcq_questions,
                 scenario_question, responses, detailed_report, assessment_engine,
                 outside, loop, generated>>
  /\ report_action' = "none"

\* what the user can enter in the text inputs of the profile form
NameInputs     == {"", "Amina"}
PositionInputs == {"", "Engineering Manager"}
CountryInputs  == {"", "Jordan"}
\* industry_options[lang]: the selectbox starts on its first option
IndustryInputs(lang) == IF lang = "en" THEN {"Technology"} ELSE {"ar:Technology"}

\* a variant of all_required that tests the name only
all_required_name_only(name, current_position, industry, country) == name # ""

\* all(required_fields)
all_required(name, current_position, industry, country) ==
  name # "" /\ current_position # "" /\ industry # "" /\ country # ""

\* the profile dict of the form; the optional widgets keep their defaults
ProfileOf(name, current_position, industry, country, lang) ==
  [name |-> name, age |-> 30, experience_years |-> 5,
   current_position |-> current_position, industry |-> industry,
   country |-> country,
   team_size |-> IF lang = "en" THEN "No direct reports" ELSE "ar:No direct reports",
   leadership_experience |-> 2,
   company_size |-> IF lang = "en" THEN "Startup (1-50)" ELSE "ar:Startup (1-50)",
   education |-> IF lang = "en" THEN "High School" ELSE "ar:High School",
   current_challenges |-> ""]

\* display_user_profile: the form is submitted
SubmitProfile ==
  /\ Ready
  /\ assessment_phase = "profile"
  /\ \E name \in NameInputs, position \in PositionInputs,
        industry \in IndustryInputs(language), country \in CountryInputs :
       /\ profile_form' = [name |-> name, current_position |-> position,
                            industry |-> industry, country |-> country]
       /\ IF all_required(name, position, industry, country)
          THEN /\ user_profile' = ProfileOf(name, position, industry, country, language)
               /\ assessment_phase' = "yes_no"
               /\ pc' = "rerun"
          ELSE /\ pc' = "idle"
               /\ UNCHANGED <<user_profile, assessment_phase>>
  /\ UNCHANGED <<language, yes_no_questions, mcq_questions, scenario_question,
                 responses, detailed_report, assessment_engine, start_time, api_key,
                 loop, generated>>
  /\ UNCHANGED report_action

\* display_yes_no_assessment: a radio is changed
AnswerYesNo ==
  /\ Ready
  /\ assessment_phase = "yes_no"
  /\ YNRendered
  /\ \E i \in 0..(NumEditable - 1), k \in 1..NumChoices :
       /\ i < Len(yes_no_questions)
       /\ responses' = RenderRadios(responses, "yes_no",
                                    YNOptionLists(yes_no_questions, language),
                                    i :> YNOptions(language)[k])
  /\ pc' = "idle"
  /\ UNCHANGED <<language, assessment_phase, user_profile, yes_no_questions,
                 mcq_questions, scenario_question, detailed_report,
                 assessment_engine, start_time, outside, loop, generated>>
  /\ UNCHANGED report_action

\* display_yes_no_assessment: the continue button
ContinueYesNo ==
  /\ Ready
  /\ assessment_phase = "yes_no"
  /\ YNRendered
  /\ responses' = RenderRadios(responses, "yes_no",
                               YNOptionLists(yes_no_questions, language), << >>)
  /\ assessment_phase' = "mcq"
  /\ pc' = "rerun"
  /\ UNCHANGED <<language, user_profile, yes_no_questions, mcq_questions,
                 scenario_question, detailed_report, assessment_engine, start_time,
                 outside, loop, generated>>
  /\ UNCHANGED report_action

\* display_mcq_assessment: a radio is changed
AnswerMCQ ==
  /\ Ready
  /\ assessment_phase = "mcq"
  /\ MCQRendered
  /\ \E i \in 0..(NumEditable - 1), k \in 1..NumChoices :
       /\ i < Len(mcq_questions)
       /\ responses' = RenderRadios(responses, "mcq", MCQOptionLists(mcq_questions),
                                    i :> MCQOptionLists(mcq_questions)[i + 1][k])
  /\ pc' = "idle"
  /\ UNCHANGED <<language, assessment_phase, user_profile, yes_no_questions,
                 mcq_questions, scenario_question, detailed_report,
                 assessment_engine, start_time, outside, loop, generated>>
  /\ UNCHANGED report_action

\* a variant of BackMCQ that goes back to the profile form
BackMCQ_to_profile ==
  /\ Ready
  /\ assessment_phase = "mcq"
  /\ MCQRendered
  /\ responses' = RenderRadios(responses, "mcq", MCQOptionLists(mcq_questions), << >>)
  /\ assessment_phase' = "profile"
  /\ pc' = "rerun"
  /\ UNCHANGED <<language, user_profile, yes_no_questions, mcq_questions,
                 scenario_question, detailed_report, assessment_engine, start_time,
                 outside, loop, generated>>
  /\ UNCHANGED report_action

\* display_mcq_assessment: the back button
BackMCQ ==
  /\ Ready
  /\ assessment_phase = "mcq"
  /\ MCQRendered
  /\ responses' = RenderRadios(responses, "mcq", MCQOptionLists(mcq_questions), << >>)
  /\ assessment_phase' = "yes_no"
  /\ pc' = "rerun"
  /\ UNCHANGED <<language, user_profile, yes_no_questions, mcq_questions,
                 scenario_question, detailed_report, assessment_engine, start_time,
                 outside, loop, generated>>
  /\ UNCHANGED report_action

\* a variant of ContinueMCQ that is offered also when the questions were not
\* drawn
ContinueMCQ_undrawn ==
  /\ Ready
  /\ assessment_phase = "mcq"
  /\ assessment_phase' = "scenario"
  /\ pc' = "rerun"
  /\ UNCHANGED <<language, user_profile, yes_no_questions, mcq_questions,
                 scenario_question, responses, detailed_report, assessment_engine,
                 start_time, outside, loop, generated>>
  /\ UNCHANGED report_action

\* display_mcq_assessment: the continue button
ContinueMCQ ==
  /\ Ready
  /\ assessment_phase = "mcq"
  /\ MCQRendered
  /\ responses' = RenderRadios(responses, "mcq", MCQOptionLists(mcq_questions), << >>)
  /\ assessment_phase' = "scenario"
  /\ pc' = "rerun"
  /\ UNCHANGED <<language, user_profile, yes_no_questions, mcq_questions,
                 scenario_question, detailed_report, assessment_engine, start_time,
                 outside, loop, generated>>
  /\ UNCHANGED report_action

\* k one-letter words with one blank between them
WordsText(k) == [i \in 1..(2 * k - 1) |-> IF i % 2 = 1 THEN "w" ELSE " "]

\* what the user can type into the text area of the scenario
Ans_padded   == <<" ", " ">> \o Rep(99, "w") \o <<" ", "\n">>
Ans_100chars == Rep(100, "w")
Ans_120words == WordsText(120)
AnswerInputs == {Ans_padded, Ans_100chars, Ans_120words}

\* the threshold of the submit button
response_min_len == 100

\* a variant of too_short that asks for three times the threshold
too_short_threefold(answer) == Len(strip(answer)) < 3 * response_min_len

\* the test of the submit button: len(response.strip()) < 100
too_short(answer) == Len(strip(answer)) < response_min_len

ScenarioRendered == scenario_question # << >>

\* display_scenario_assessment: the text area is changed
TypeScenario ==
  /\ Ready
  /\ assessment_phase = "scenario"
  /\ ScenarioRendered
  /\ \E text \in AnswerInputs : responses' = ("scenario" :> text) @@ responses
  /\ pc' = "idle"
  /\ UNCHANGED <<language, assessment_phase, user_profile, yes_no_questions,
                 mcq_questions, scenario_question, detailed_report,
                 assessment_engine, start_time, outside, loop, generated>>
  /\ report_action' = "none"

\* display_scenario_assessment: the back button
BackScenario ==
  /\ Ready
  /\ assessment_phase = "scenario"
  /\ ScenarioRendered
  /\ responses' = ("scenario" :> Stored(responses, "scenario")) @@ responses
  /\ assessment_phase' = "mcq"
  /\ pc' = "rerun"
  /\ UNCHANGED <<language, user_profile, yes_no_questions, mcq_questions,
                 scenario_question, detailed_report, assessment_engine, start_time,
                 outside, loop, generated>>
  /\ report_action' = "none"

\* a variant of SubmitScenario without the length test
SubmitScenario_untested ==
  /\ Ready
  /\ assessment_phase = "scenario"
  /\ ScenarioRendered
  /\ responses' = ("scenario" :> Stored(responses, "scenario")) @@ responses
  /\ StartCall("report")
  /\ report_action' = "none"
  /\ UNCHANGED <<language, assessment_phase, user_profile, yes_no_questions,
                 mcq_questions, scenario_question, detailed_report,
                 assessment_engine, start_time, outside, generated>>

\* display_scenario_assessment: the submit button
SubmitScenario ==
  /\ Ready
  /\ assessment_phase = "scenario"
  /\ ScenarioRendered
  /\ responses' = ("scenario" :> Stored(responses, "scenario")) @@ responses
  /\ IF too_short(Stored(responses, "scenario"))
     THEN pc' = "idle" /\ report_action' = "rejected" /\ UNCHANGED loop
     ELSE StartCall("report") /\ report_action' = "none"
  /\ UNCHANGED <<language, assessment_phase, user_profile, yes_no_questions,
                 mcq_questions, scenario_question, detailed_report,
                 assessment_engine, start_time, outside, generated>>

\* the outcomes that an export leaves in report_action
Exported == {"pdf", "pdf_failed", "html", "html_failed"}
ExportFailed == {"pdf_failed", "html_failed"}

\* a variant of ExportPDF that empties the profile it has rendered
ExportPDF_consumes_profile ==
  /\ Ready
  /\ assessment_phase = "complete"
  /\ ReportRendered
  /\ \E raised \in BOOLEAN :
       /\ report_action' = IF raised THEN "pdf_failed" ELSE "pdf"
       /\ user_profile' = IF raised THEN user_profile ELSE << >>
  /\ pc' = "idle"
  /\ UNCHANGED <<language, assessment_phase, yes_no_questions, mcq_questions,
                 scenario_question, responses, detailed_report, assessment_engine,
                 start_time, outside, loop, generated>>

\* display_detailed_report: the PDF button; generate_enhanced_pdf_report reads
\* the report and the profile, and it returns the bytes for the download
\* button or raises, which the handler reports with st.error
ExportPDF ==
  /\ Ready
  /\ assessment_phase = "complete"
  /\ ReportRendered
  /\ \E raised \in BOOLEAN :
       report_action' = IF raised THEN "pdf_failed" ELSE "pdf"
  /\ pc' = "idle"
  /\ UNCHANGED <<session, outside, loop, generated>>

\* a variant of ExportHTML whose failure discards the stored report
ExportHTML_discards_report ==
  /\ Ready
  /\ assessment_phase = "complete"
  /\ ReportRendered
  /\ \E raised \in BOOLEAN :
       /\ report_action' = IF raised THEN "html_failed" ELSE "html"
       /\ detailed_report' = IF raised THEN << >> ELSE detailed_report
  /\ pc' = "idle"
  /\ UNCHANGED <<language, assessment_phase, user_profile, yes_no_questions,
                 mcq_questions, scenario_question, responses, assessment_engine,
                 start_time, outside, loop, generated>>

\* display_detailed_report: the HTML button; generate_html_report reads the
\* report and the profile, and the page is shown or the exception reported
ExportHTML ==
  /\ Ready
  /\ assessment_phase = "complete"
  /\ ReportRendered
  /\ \E raised \in BOOLEAN :
       report_action' = IF raised THEN "html_failed" ELSE "html"
  /\ pc' = "idle"
  /\ UNCHANGED <<session, outside, loop, generated>>

\* display_detailed_report: the analytics button; it draws the report again
\* with a notice and stores nothing
ReportButton ==
  /\ Ready
  /\ assessment_phase = "complete"
  /\ ReportRendered
  /\ pc' = "idle"
  /\ UNCHANGED <<session, outside, loop, generated>>
  /\ UNCHANGED report_action

\* a variant of NewAssessment that keeps the language of the session
NewAssessment_keeps_language ==
  /\ Ready
  /\ assessment_phase = "complete"
  /\ ReportRendered
  /\ language' = language
  /\ assessment_phase' = "setup"
  /\ user_profile' = << >>
  /\ yes_no_questions' = << >>
  /\ mcq_questions' = << >>
  /\ scenario_question' = << >>
  /\ responses' = << >>
  /\ detailed_report' = << >>
  /\ assessment_engine' = assessment_engine
  /\ start_time' = "None"
  /\ generated' = NoneGenerated
  /\ profile_form' = NoForm
  /\ pc' = "rerun"
  /\ UNCHANGED <<api_key, loop>>
  /\ report_action' = "new"

\* display_detailed_report: the new assessment button; every key is deleted,
\* initialize_session_state sets the defaults and the engine is put back
NewAssessment ==
  /\ Ready
  /\ assessment_phase = "complete"
  /\ ReportRendered
  /\ language' = "en"
  /\ assessment_phase' = "setup"
  /\ user_profile' = << >>
  /\ yes_no_questions' = << >>
  /\ mcq_questions' = << >>
  /\ scenario_question' = << >>
  /\ responses' = << >>
  /\ detailed_report' = << >>
  /\ assessment_engine' = assessment_engine
  /\ start_time' = "None"
  /\ generated' = NoneGenerated
  /\ profile_form' = NoForm
  /\ pc' = "rerun"
  /\ UNCHANGED <<api_key, loop>>
  /\ report_action' = "new"

Next ==
  \/ LoadNoKey
  \/ LoadProbe
  \/ TestConnectionAttempt
  \/ ResumeProbe
  \/ Redisplay
  \/ EnterPhase
  \/ ApiCallAttempt
  \/ ResumeYesNo
  \/ ResumeMCQ
  \/ ResumeScenario
  \/ ResumeReport
  \/ ToggleLanguage
  \/ BeginAssessment
  \/ SubmitProfile
  \/ AnswerYesNo
  \/ ContinueYesNo
  \/ AnswerMCQ
  \/ BackMCQ
  \/ ContinueMCQ
  \/ TypeScenario
  \/ BackScenario
  \/ SubmitScenario
  \/ ExportPDF
  \/ ExportHTML
  \/ ReportButton
  \/ NewAssessment

Spec == Init /\ [][Next]_vars

\* the retry loop runs to its end: every generate_content request comes back
FairSpec == Spec /\ WF_vars(ApiCallAttempt)

(***************************************************************************)
(* Properties                                                              *)
(***************************************************************************)
QuestionGenerators == {"yes_no", "mcq", "scenario"}

\* the cache of each question screen
CachesOf ==
  [yes_no |-> yes_no_questions, mcq |-> mcq_questions, scenario |-> scenario_question]

\* the generator of the returning call has failed: the client raised, or the
\* generator rejected the text
GenerationFailed ==
  /\ pc = "ret"
  /\ caller \in QuestionGenerators
  /\ \/ result.status = "raised"
     \/ caller = "yes_no" /\ ~yes_no_of[result.value].ok
     \/ caller = "mcq" /\ ~mcq_of[result.value].ok
     \/ caller = "scenario" /\ ~scenario_of[result.value].ok

\* the retry loop of _make_api_call_with_retry has returned a text
Returned == pc = "ret" /\ caller \in Generators /\ result.status = "returned"
\* the retry loop of _make_api_call_with_retry has raised
Raised == pc = "ret" /\ caller \in Generators /\ result.status = "raised"

AllowedPhaseChanges ==
  {<<"setup", "profile">>, <<"profile", "yes_no">>, <<"yes_no", "mcq">>,
   <<"mcq", "scenario">>, <<"scenario", "complete">>, <<"mcq", "yes_no">>,
   <<"scenario", "mcq">>, <<"complete", "setup">>}

\* C1: the phase is always one of the six phases, and every step that
\* changes the phase is one of the five forward changes, the two backward
\* changes (mcq to yes_no, scenario to mcq) or the reset (complete to setup).
C1_PhaseChanges ==
  /\ [](assessment_phase \in Phases)
  /\ [][assessment_phase' # assessment_phase =>
          <<assessment_phase, assessment_phase'>> \in AllowedPhaseChanges]_vars

\* C1 witness: the session is back on the Yes/No/Maybe screen after it had
\* reached the scenario screen, so both backward changes have been taken.
C1_BackFromScenario ==
  /\ assessment_phase = "yes_no"
  /\ mcq_questions # << >>
  /\ scenario_question # << >>

\* C2: a submission of the profile form moves the phase to yes_no exactly
\* when name, position, industry and country are all non-empty; otherwise the
\* phase stays profile and the stored profile is unchanged.
C2_ProfileSubmit ==
  [][SubmitProfile =>
       IF /\ profile_form'.name # ""
          /\ profile_form'.current_position # ""
          /\ profile_form'.industry # ""
          /\ profile_form'.country # ""
       THEN assessment_phase' = "yes_no"
       ELSE assessment_phase' = "profile" /\ user_profile' = user_profile]_vars

\* C2 witness: a form with all four fields was submitted after which the
\* phase is yes_no and the profile holds the submitted fields.
C2_Submitted ==
  /\ assessment_phase = "yes_no"
  /\ profile_form # NoForm
  /\ profile_form.name # "" /\ profile_form.country # ""
  /\ user_profile # << >>
  /\ user_profile.name = profile_form.name

\* C3: the phase complete is reached only with a scenario answer that has,
\* after trimming, at least 100 words.
C3_CompleteNeedsHundredWords ==
  assessment_phase = "complete" =>
    WordCount(strip(Stored(responses, "scenario"))) >= 100

\* C4: when the generator of a question screen fails, the script run ends
\* normally with the phase unchanged and the cache of the screen still empty;
\* every later script run of that screen calls the same generator again; a
\* Yes/No/Maybe reply of six items leaves the phase yes_no without questions.
C4_GeneratorFailure ==
  /\ [][GenerationFailed =>
          /\ pc' = "idle"
          /\ assessment_phase' = assessment_phase
          /\ assessment_phase = caller
          /\ CachesOf'[caller] = << >>]_vars
  /\ [][(/\ RunDue
         /\ assessment_engine # None
         /\ assessment_phase \in QuestionGenerators
         /\ CachesOf[assessment_phase] = << >>
         /\ language' = language)
        => (pc' = "call" /\ caller' = assessment_phase) \/ UNCHANGED vars]_vars
  /\ [][(pc = "ret" /\ caller = "yes_no" /\ result.value = Stripped[YN_six])
        => (assessment_phase' = "yes_no" /\ yes_no_questions' = << >>)]_vars

\* C4 witness: the Yes/No/Maybe screen waits for the user with no questions
\* stored, which only a failed generation leaves behind.
C4_FailedOnce ==
  /\ pc = "idle"
  /\ assessment_engine # None
  /\ assessment_phase = "yes_no"
  /\ yes_no_questions = << >>

\* C5: between two resets each question generator succeeds at most once; a
\* generator is never called while its cache is filled; a filled cache is
\* never replaced or cleared except by the new-assessment reset.
C5_GenerateOnce ==
  /\ [](\A g \in QuestionGenerators : generated[g] <= 1)
  /\ []((pc \in {"call", "ret"} /\ caller \in QuestionGenerators)
          => CachesOf[caller] = << >>)
  /\ [][\A g \in QuestionGenerators :
          CachesOf[g] # << >> =>
            \/ CachesOf'[g] = CachesOf[g]
            \/ (assessment_phase = "complete" /\ assessment_phase' = "setup")]_vars

\* C5 witness: the Yes/No/Maybe screen is shown again in the other language
\* after the MCQ questions were generated, with one generation of each.
C5_Revisited ==
  /\ pc = "idle"
  /\ assessment_phase = "yes_no"
  /\ language = "ar"
  /\ generated["yes_no"] = 1
  /\ generated["mcq"] = 1

\* a step in which the user enters an answer or resets the session
AnswerInput == AnswerYesNo \/ AnswerMCQ \/ TypeScenario \/ NewAssessment

\* C6: a step without new user input (a re-display, a navigation, a
\* generation) leaves every stored answer of every screen as it was.
C6_AnswersPreserved ==
  [][~AnswerInput =>
       \A phase \in DOMAIN responses :
         phase \in DOMAIN responses' /\ responses'[phase] = responses[phase]]_vars

\* C6 witness: the Yes/No/Maybe screen is shown again after the MCQ screen and
\* the answer changed before leaving is still the stored one.
C6_Revisited ==
  /\ pc = "idle"
  /\ assessment_phase = "yes_no"
  /\ mcq_questions # << >>
  /\ "yes_no" \in DOMAIN responses
  /\ responses["yes_no"]["q0"] = CONTENT("en").no

\* C7 as stated: the value returned is the text of the reply.
C7_ReturnsReplyText == Returned => result.value = response

\* C7, amended: one call makes at most 3 requests and none after it has
\* ended; it ends; it returns the text of the first reply that has a text,
\* without the surrounding whitespace; after three failures it raises with
\* the error of the third.
C7_RetryLoop ==
  /\ [](caller \in Generators => requests <= max_retries)
  /\ [](Returned => response # << >> /\ result.value = strip(response))
  /\ [](Raised => /\ requests = max_retries
                  /\ last_error # ""
                  /\ result.cause = last_error)
  /\ [][(caller \in Generators /\ requests' > requests) => pc = "call"]_vars
  /\ ((pc = "call" /\ caller \in Generators) ~> (Returned \/ Raised))

\* C7 witness: a call has raised after its third request.
C7_Exhausted == Raised /\ requests = 3

\* C8: the sleeps of a call are 1, then 2, one after each failed attempt
\* that is followed by another; a call that returns at attempt k has slept
\* exactly k-1 times.
C8_Backoff ==
  (pc \in {"call", "ret"} /\ caller \in Generators) =>
    /\ sleeps = SubSeq(<<1, 2>>, 1, Len(sleeps))
    /\ (pc = "call" => Len(sleeps) = requests)
    /\ (Returned => Len(sleeps) = requests - 1)

\* C8 witness: a call has returned a text at its third attempt after the
\* sleeps 1 and 2.
C8_ThirdAttempt == Returned /\ requests = 3 /\ sleeps = <<1, 2>>

\* C9: the cached Yes/No/Maybe questions are exactly 7 items, each with a
\* non-empty question string and a non-empty pillar string.
C9_YesNoWellFormed ==
  yes_no_questions # << >> =>
    /\ Len(yes_no_questions) = 7
    /\ \A k \in 1..Len(yes_no_questions) :
         LET q == yes_no_questions[k]
         IN /\ q.t = "dict"
            /\ \A key \in {K_question, K_pillar} :
                 /\ key \in DOMAIN q.v
                 /\ q.v[key].t = "str"
                 /\ q.v[key].v # << >>

\* C10: the cached MCQ questions are exactly 7 items, each with a question,
\* a pillar and an options list of exactly 4 strings.
C10_MCQWellFormed ==
  mcq_questions # << >> =>
    /\ Len(mcq_questions) = 7
    /\ \A k \in 1..Len(mcq_questions) :
         LET q == mcq_questions[k]
         IN /\ q.t = "dict"
            /\ {K_question, K_pillar, K_options} \subseteq DOMAIN q.v
            /\ q.v[K_options].t = "list"
            /\ Len(q.v[K_options].v) = 4
            /\ \A j \in 1..Len(q.v[K_options].v) : q.v[K_options].v[j].t = "str"

\* the scenario generator is about to resume with the text of the client
ScenarioReturned == pc = "ret" /\ caller = "scenario" /\ result.status = "returned"

\* C11: the scenario generator fails on every client output shorter than 150
\* characters and returns every output of 150 characters or more unchanged;
\* the step that resumes it stores exactly that text or nothing; a stored
\* scenario is never shorter than 150 characters.
C11_ScenarioFloor ==
  /\ [](ScenarioReturned =>
          LET g == scenario_of[result.value]
          IN IF Len(result.value) < 150 THEN ~g.ok
             ELSE g.ok /\ g.v = result.value)
  /\ [][ScenarioReturned =>
          scenario_question' =
            IF Len(result.value) < 150 THEN << >> ELSE result.value]_vars
  /\ [](scenario_question # << >> => Len(scenario_question) >= 150)

\* C11 witness: the scenario screen shows a stored scenario of exactly 150
\* characters, the shortest text the generator returns.
C11_StoredAtFloor ==
  /\ pc = "idle"
  /\ assessment_phase = "scenario"
  /\ Len(scenario_question) = 150

\* the names of the pillars in either language
PillarNames ==
  {CONTENT(l).pillars[k] : l \in {"en", "ar"}, k \in 1..Len(pillars_en)}

\* C12: in the stored report the overall score and the score of every pillar
\* present, under its English or its Arabic name, is a number within
\* [1.0, 10.0].
C12_ScoresInRange ==
  detailed_report # << >> =>
    LET overall == detailed_report[K_overall_leadership_score]
        breakdown == detailed_report[K_leadership_profile_breakdown]
        InRange(x) == x.t = "num" /\ 10 <= x.v /\ x.v <= 100
        ScoreOk(d) == (d.t = "dict" /\ K_score \in DOMAIN d.v) => InRange(d.v[K_score])
    IN /\ ScoreOk(overall)
       /\ breakdown.t = "dict" =>
            \A p \in PillarNames \cap DOMAIN breakdown.v : ScoreOk(breakdown.v[p])

\* the decoded value of every text that the report generator can receive
report_parsed ==
  [t \in {Stripped[r] : r \in Replies["report"]} |-> clean_and_parse_json(t)]

\* the report generator is about to resume with a text that decodes to a mapping
ReportMappingReturned ==
  /\ pc = "ret"
  /\ caller = "report"
  /\ result.status = "returned"
  /\ report_parsed[result.value].ok
  /\ report_parsed[result.value].v.t = "dict"

\* C13: whenever the decoded output is a mapping, whatever required keys it
\* lacks, the report generator does not fail and returns a report that has
\* all 11 required keys, each missing one mapped to its placeholder string.
C13_MissingKeysTolerated ==
  ReportMappingReturned =>
    LET decoded == report_parsed[result.value].v.v
        g == report_of[result.value]
    IN /\ g.ok
       /\ \A k \in 1..Len(required_keys) :
            /\ required_keys[k] \in DOMAIN g.v
            /\ required_keys[k] \notin DOMAIN decoded =>
                 g.v[required_keys[k]] = Placeholder(required_keys[k])

\* the code-fence delimiters of a text: three backticks, the language tag json
\* when it follows them, and the newline after either
FenceDelimiters(s) ==
  UNION {LET e == IF At(s, i + 3, <<"j", "s", "o", "n">>) THEN i + 6 ELSE i + 2
         IN (i..e) \cup (IF e + 1 <= Len(s) /\ s[e + 1] = "\n" THEN {e + 1} ELSE {})
         : i \in FenceMatches(s)}

\* the strict decode of a text without its code-fence delimiters and the
\* surrounding whitespace
strict_decode(text) ==
  json_loads(strip(KeepIdx(text, 1, Len(text), FenceDelimiters(text))))

\* the response parser and the strict decode on every text that the
\* Yes/No/Maybe generator can receive
yes_no_parsed ==
  [t \in {Stripped[r] : r \in Replies["yes_no"]} |-> clean_and_parse_json(t)]
yes_no_strict ==
  [t \in {Stripped[r] : r \in Replies["yes_no"]} |-> strict_decode(t)]

\* C14: on every text that the Yes/No/Maybe generator hands to the response
\* parser, the parser succeeds exactly when the strict decode of the text
\* without its fence delimiters does, and returns the same value.
C14_ParserIsStrictDecode ==
  (pc = "ret" /\ caller = "yes_no" /\ result.status = "returned") =>
    yes_no_parsed[result.value] = yes_no_strict[result.value]

\* C15: the step that leaves phase complete is a full reset: the phase is
\* setup, the profile, both question lists, the scenario, the answers, the
\* report, the start time and the language have their initial values, the
\* client instance is the one from before, and no probe is started; the
\* probe never runs while a client instance is stored.
C15_FullReset ==
  /\ [][(assessment_phase = "complete" /\ assessment_phase' # "complete") =>
          /\ assessment_phase' = "setup"
          /\ user_profile' = << >>
          /\ yes_no_questions' = << >>
          /\ mcq_questions' = << >>
          /\ scenario_question' = << >>
          /\ responses' = << >>
          /\ detailed_report' = << >>
          /\ start_time' = "None"
          /\ language' = "en"
          /\ assessment_engine' = assessment_engine
          /\ assessment_engine' # None
          /\ caller' # "probe"]_vars
  /\ [](caller = "probe" => assessment_engine = None)

\* C15 witness: the welcome screen is shown after the reset of an assessment
\* that had been completed, with the stored client instance.
C15_AfterReset ==
  /\ report_action = "new"
  /\ pc = "idle"
  /\ assessment_phase = "setup"
  /\ assessment_engine = Engine

\* C16: between two resets the report is generated at most once; a step that
\* changes the stored report is either the successful end of a report
\* generation in phase scenario, which stores the generated report and sets
\* the phase to complete, or the reset, which clears it; a step that stays
\* in phase complete leaves the stored report as it is.
C16_ReportAssignedOnce ==
  /\ [](generated["report"] <= 1)
  /\ [](generated["report"] = 0 => detailed_report = << >>)
  /\ [][detailed_report' # detailed_report =>
          \/ /\ assessment_phase = "scenario"
             /\ pc = "ret" /\ caller = "report" /\ result.status = "returned"
             /\ report_of[result.value].ok
             /\ detailed_report = << >>
             /\ detailed_report' = report_of[result.value].v
             /\ assessment_phase' = "complete"
          \/ /\ assessment_phase = "complete"
             /\ assessment_phase' = "setup"
             /\ detailed_report' = << >>]_vars
  /\ [][(assessment_phase = "complete" /\ assessment_phase' = "complete") =>
          detailed_report' = detailed_report]_vars

\* C16 witness: the report screen is shown in Arabic with the report that the
\* one generation since the last reset has stored.
C16_ReportStored ==
  /\ pc = "idle"
  /\ assessment_phase = "complete"
  /\ language = "ar"
  /\ generated["report"] = 1
  /\ detailed_report = report_of[Stripped[Report_ok]].v

\* the phases after the profile form
AfterProfile == {"yes_no", "mcq", "scenario", "complete"}

\* C17: in the phases after the profile form a profile is stored; no step
\* taken in one of them changes it except the reset, which empties it; the
\* profile is stored only by the step that leaves phase profile.
C17_ProfileImmutable ==
  /\ [](assessment_phase \in AfterProfile => user_profile # << >>)
  /\ [][(assessment_phase \in AfterProfile /\ user_profile' # user_profile) =>
          /\ assessment_phase = "complete"
          /\ assessment_phase' = "setup"
          /\ user_profile' = << >>]_vars
  /\ [][(assessment_phase \notin AfterProfile /\ user_profile' # user_profile) =>
          /\ assessment_phase = "profile"
          /\ assessment_phase' = "yes_no"]_vars

\* C17 witness: the report screen is shown in Arabic and the stored profile
\* is still the one submitted in the English session.
C17_ProfileKept ==
  /\ pc = "idle"
  /\ assessment_phase = "complete"
  /\ language = "ar"
  /\ user_profile = ProfileOf("Amina", "Engineering Manager", "Technology", "Jordan", "en")

\* C18: every step that ends with an export as the last request of the
\* report screen, the export itself and whatever follows it before a reset,
\* leaves the stored report and the stored profile as they were and ends in
\* phase complete; an export step changes nothing of the session.
C18_ExportsReadOnly ==
  /\ [][report_action' \in Exported =>
          /\ detailed_report' = detailed_report
          /\ user_profile' = user_profile
          /\ assessment_phase = "complete"
          /\ assessment_phase' = "complete"]_vars
  /\ [][(report_action' \in Exported /\ report_action' # report_action) =>
          session' = session]_vars
  /\ [](report_action \in Exported =>
          detailed_report # << >> /\ user_profile # << >>)

\* C18 witness: the report screen shows the page of the HTML export in an
\* Arabic session, with the report and the profile that were stored before.
C18_Exported ==
  /\ pc = "idle"
  /\ report_action = "html"
  /\ language = "ar"
  /\ assessment_phase = "complete"
  /\ detailed_report = report_of[Stripped[Report_ok]].v
  /\ user_profile = ProfileOf("Amina", "Engineering Manager", "Technology", "Jordan", "en")

\* the report screen is drawn with its buttons and waits for the user
ReportScreenReady ==
  /\ pc = "idle"
  /\ assessment_engine # None
  /\ assessment_phase = "complete"
  /\ ~display_detailed_report_raises(detailed_report, language, start_time)

\* C19: a step in which an export fails leaves the phase at complete and the
\* stored report, profile and answers unchanged, and it ends with the report
\* screen drawn; whenever the report screen waits after a failed export, both
\* exports and the reset can be taken.
C19_ExportFailureCaught ==
  /\ [][(report_action' \in ExportFailed /\ report_action' # report_action) =>
          /\ assessment_phase' = "complete"
          /\ detailed_report' = detailed_report
          /\ user_profile' = user_profile
          /\ responses' = responses
          /\ ReportScreenReady']_vars
  /\ []((report_action \in ExportFailed /\ pc = "idle") =>
          /\ ReportScreenReady
          /\ ENABLED ExportPDF
          /\ ENABLED ExportHTML
          /\ ENABLED NewAssessment)

\* C19 witness: the report screen waits after a failed PDF export with the
\* report still stored.
C19_FailedExport ==
  /\ pc = "idle"
  /\ report_action = "pdf_failed"
  /\ assessment_phase = "complete"
  /\ detailed_report # << >>

\* while no client instance is stored no screen is drawn and nothing of the
\* workflow happens: the phase is setup, nothing is stored, no generator runs
NothingWithoutClient ==
  assessment_engine = None =>
    /\ assessment_phase = "setup"
    /\ user_profile = << >>
    /\ yes_no_questions = << >>
    /\ mcq_questions = << >>
    /\ scenario_question = << >>
    /\ responses = << >>
    /\ detailed_report = << >>
    /\ start_time = "None"
    /\ caller \notin Generators
    /\ ~ENABLED Redisplay
    /\ ~ENABLED BeginAssessment

\* C20 as stated: nothing happens without a client, and once a construction
\* has failed (the script waits without a client) no step starts another
\* construction.
C20_NoSecondConstruction ==
  /\ []NothingWithoutClient
  /\ [][(pc = "idle" /\ assessment_engine = None) => caller' # "probe"]_vars

\* C20, amended: nothing happens without a client; every script run that
\* finds no client attempts the construction again, which fails at once
\* without a credential and else runs the connectivity probe from its first
\* request; the session goes on when a probe succeeds.
C20_ConstructionRetried ==
  /\ []NothingWithoutClient
  /\ [][(pc = "rerun" /\ assessment_engine = None) =>
          IF api_key
          THEN pc' = "call" /\ caller' = "probe" /\ requests' = 0
          ELSE pc' = "idle" /\ assessment_engine' = None]_vars
  /\ [][(assessment_engine = None /\ assessment_engine' # None) =>
          /\ pc = "ret" /\ caller = "probe" /\ result.status = "returned"
          /\ pc' = "idle"]_vars

\* C20 witness: after a failed construction and a language toggle the probe
\* of another construction has made its first request.
C20_SecondAttempt ==
  /\ assessment_engine = None
  /\ language = "ar"
  /\ pc = "call"
  /\ caller = "probe"
  /\ requests = 1

\* the probe of a construction has ended
ProbeReturned == pc = "ret" /\ caller = "probe" /\ result.status = "returned"
ProbeRaised == pc = "ret" /\ caller = "probe" /\ result.status = "raised"

\* C21: a construction makes at most 3 probe requests, with the sleeps 1 and
\* 2 after the first and the second failed attempt; a request whose reply
\* holds the marker ends the probe with success, any other request is a
\* failed attempt; the probe raises only after 3 failed attempts; the client
\* is stored exactly when the probe has succeeded, and no probe runs while a
\* client is stored.
C21_ProbePolicy ==
  /\ [](caller = "probe" =>
          /\ requests <= 3
          /\ sleeps = SubSeq(<<1, 2>>, 1, Len(sleeps))
          /\ (pc = "call" => Len(sleeps) = requests /\ attempt = requests))
  /\ [](ProbeReturned =>
          /\ Contains(response, API_TEST_SUCCESS)
          /\ Len(sleeps) = requests - 1)
  /\ [](ProbeRaised => requests = 3 /\ sleeps = <<1, 2>>)
  /\ [][(caller = "probe" /\ requests' = requests + 1) =>
          /\ pc = "call"
          /\ IF response' # response /\ Contains(response', API_TEST_SUCCESS)
             THEN ProbeReturned'
             ELSE IF requests = 2 THEN ProbeRaised'
             ELSE pc' = "call" /\ sleeps' = Append(sleeps, 2 ^ requests)]_vars
  /\ [][(pc = "ret" /\ caller = "probe") =>
          assessment_engine' = IF result.status = "returned" THEN Engine ELSE None]_vars
  /\ [](assessment_engine # None => caller # "probe")

\* C21 witness: the probe has succeeded at its third request, after the
\* sleeps 1 and 2, on a reply that holds the marker inside a longer text.
C21_ThirdProbe ==
  /\ ProbeReturned
  /\ requests = 3
  /\ sleeps = <<1, 2>>
  /\ response = <<"O", "K", " ">> \o API_TEST_SUCCESS

\* the generator of the returning call has failed, the report generator
\* included: the client raised, the parser raised or the validation raised
AnyGenerationFailed ==
  /\ pc = "ret"
  /\ caller \in Generators
  /\ \/ result.status = "raised"
     \/ caller = "yes_no" /\ ~yes_no_of[result.value].ok
     \/ caller = "mcq" /\ ~mcq_of[result.value].ok
     \/ caller = "scenario" /\ ~scenario_of[result.value].ok
     \/ caller = "report" /\ ~report_of[result.value].ok

\* C22: from the start of a generator call to its end nothing of the session
\* changes unless the generator succeeds; the step that handles a failed
\* generation ends the script run with the session as it was and the screen
\* waiting; on a screen that waits after a failure the user can go on: the
\* generator can be called again, the language toggled, and on the scenario
\* screen the answer edited, submitted again or left by the back button.
C22_FailuresContained ==
  /\ [][(pc = "call" /\ caller \in Generators) => session' = session]_vars
  /\ [][AnyGenerationFailed =>
          /\ session' = session
          /\ pc' = "idle"
          /\ caller' = "none"]_vars
  /\ []((/\ pc = "idle"
         /\ assessment_engine # None
         /\ assessment_phase \in QuestionGenerators
         /\ CachesOf[assessment_phase] = << >>)
        => ENABLED EnterPhase /\ ENABLED ToggleLanguage)
  /\ []((/\ pc = "idle"
         /\ assessment_phase = "scenario"
         /\ scenario_question # << >>)
        => /\ ENABLED SubmitScenario
           /\ ENABLED TypeScenario
           /\ ENABLED BackScenario
           /\ ENABLED ToggleLanguage)

\* C22 witness: the MCQ screen waits without questions, which only a failed
\* generation leaves behind, and the Yes/No/Maybe answers are still stored.
C22_FailedMCQ ==
  /\ pc = "idle"
  /\ assessment_engine # None
  /\ assessment_phase = "mcq"
  /\ mcq_questions = << >>
  /\ "yes_no" \in DOMAIN responses
  /\ yes_no_questions # << >>

\* a step that changes the language and is not the new-assessment reset
LanguageToggled ==
  /\ language' # language
  /\ ~(assessment_phase = "complete" /\ assessment_phase' = "setup")

\* C23: a language toggle changes the language and nothing else of the
\* session, and it calls no generator; the script run that follows it on a
\* question screen with a filled cache calls no generator either and leaves
\* the cached content as it is.
C23_ToggleChangesLanguageOnly ==
  /\ [][LanguageToggled =>
          /\ assessment_phase' = assessment_phase
          /\ user_profile' = user_profile
          /\ yes_no_questions' = yes_no_questions
          /\ mcq_questions' = mcq_questions
          /\ scenario_question' = scenario_question
          /\ responses' = responses
          /\ detailed_report' = detailed_report
          /\ assessment_engine' = assessment_engine
          /\ start_time' = start_time
          /\ generated' = generated
          /\ caller' = "none"
          /\ pc' = "rerun"]_vars
  /\ [][(/\ pc = "rerun"
         /\ assessment_phase \in QuestionGenerators
         /\ CachesOf[assessment_phase] # << >>)
        => /\ caller' = "none"
           /\ CachesOf' = CachesOf
           /\ generated' = generated]_vars

\* C23 witness: the Yes/No/Maybe screen is due in Arabic right after a toggle,
\* with the questions generated once and an answer stored in English.
C23_ToggledAfterCaching ==
  /\ pc = "rerun"
  /\ language = "ar"
  /\ assessment_phase = "yes_no"
  /\ generated["yes_no"] = 1
  /\ yes_no_questions # << >>
  /\ "yes_no" \in DOMAIN responses
  /\ responses["yes_no"]["q0"] = CONTENT("en").yes

\* a generator is about to resume with the given reply as the returned text
ReturnedReply(c, reply) ==
  pc = "ret" /\ caller = c /\ result.status = "returned" /\ result.value = Stripped[reply]

\* the cached questions and the scenario are the compliant ones
CompliantContent ==
  /\ yes_no_questions = yes_no_of[Stripped[YN_ok]].v
  /\ mcq_questions = mcq_of[Stripped[MCQ_ok]].v
  /\ scenario_question = scenario_of[Stripped[Scen_ok]].v

\* the pillar breakdown of a report holds all six fixed pillar names
HasSixPillars(report) ==
  /\ report # << >>
  /\ report[K_leadership_profile_breakdown].t = "dict"
  /\ \A k \in 1..Len(pillars_en) :
       pillars_en[k] \in DOMAIN report[K_leadership_profile_breakdown].v

\* C24: with compliant generator data every step of the sequence begin, submit
\* a profile with the four required fields, continue, continue, submit an
\* answer of 120 words moves on: begin leads to the profile form, the profile
\* to the Yes/No/Maybe screen, whose compliant questions are stored and can be
\* continued at once, likewise for the MCQ screen and the scenario, the submit
\* of the 120 words starts the report generator, and its compliant reply ends
\* in phase complete with a stored report whose breakdown holds all six
\* fixed pillar names.
C24_HappyPath ==
  /\ [][BeginAssessment => assessment_phase' = "profile"]_vars
  /\ [][(SubmitProfile /\ all_required(profile_form'.name, profile_form'.current_position,
                                       profile_form'.industry, profile_form'.country))
        => assessment_phase' = "yes_no"]_vars
  /\ [][ReturnedReply("yes_no", YN_ok)
        => /\ Len(yes_no_questions') = 7
           /\ (ENABLED ContinueYesNo)']_vars
  /\ [][(ContinueYesNo /\ yes_no_questions = yes_no_of[Stripped[YN_ok]].v)
        => assessment_phase' = "mcq"]_vars
  /\ [][ReturnedReply("mcq", MCQ_ok)
        => /\ Len(mcq_questions') = 7
           /\ (ENABLED ContinueMCQ)']_vars
  /\ [][(ContinueMCQ /\ mcq_questions = mcq_of[Stripped[MCQ_ok]].v)
        => assessment_phase' = "scenario"]_vars
  /\ [][ReturnedReply("scenario", Scen_ok)
        => /\ scenario_question' = Scen_ok
           /\ (ENABLED SubmitScenario)']_vars
  /\ []((/\ Ready
         /\ assessment_phase = "scenario"
         /\ ScenarioRendered
         /\ Stored(responses, "scenario") = Ans_120words)
        => ENABLED (SubmitScenario /\ pc' = "call" /\ caller' = "report"))
  /\ [][(/\ pc = "idle"
         /\ assessment_phase = "scenario"
         /\ Stored(responses, "scenario") = Ans_120words
         /\ pc' = "call")
        => caller' = "report" /\ session' = session]_vars
  /\ [][ReturnedReply("report", Report_ok)
        => /\ assessment_phase' = "complete"
           /\ HasSixPillars(detailed_report')]_vars

\* C24 witness: an assessment begun once in English, every generator called
\* once with compliant data, the answer of 120 words submitted, is complete
\* and its report holds the six pillars.
C24_Completed ==
  /\ assessment_phase = "complete"
  /\ language = "en"
  /\ \A c \in Generators : generated[c] = 1
  /\ CompliantContent
  /\ all_required(user_profile.name, user_profile.current_position,
                  user_profile.industry, user_profile.country)
  /\ responses["scenario"] = Ans_120words
  /\ detailed_report = report_of[Stripped[Report_ok]].v
  /\ HasSixPillars(detailed_report)

\* C25: whenever the retry loop of a generator returns, the string it returns
\* is not empty.
C25_ReturnedNonEmpty == Returned => result.value # << >>

\* the submit button of the scenario screen has just refused the answer
SubmitRejected == report_action' = "rejected" /\ report_action # "rejected"

\* C26: a submit of the scenario screen with an answer below the threshold of
\* the length test starts no report request and leaves the phase, the empty
\* report, the profile and the cached questions as they are; all it keeps is
\* the entered text under the key scenario of the answers.  No report request
\* starts from the scenario screen while the stored answer is below the
\* threshold.
C26_ShortSubmitKeepsAnswerOnly ==
  /\ [][SubmitRejected =>
          /\ pc = "idle" /\ pc' = "idle"
          /\ too_short(Stored(responses, "scenario"))
          /\ assessment_phase = "scenario" /\ assessment_phase' = "scenario"
          /\ detailed_report = << >> /\ detailed_report' = << >>
          /\ user_profile' = user_profile
          /\ CachesOf' = CachesOf
          /\ language' = language
          /\ start_time' = start_time
          /\ responses' = ("scenario" :> Stored(responses, "scenario")) @@ responses
          /\ caller' = "none"
          /\ requests' = requests
          /\ generated' = generated]_vars
  /\ [][(pc # "call" /\ pc' = "call" /\ caller' = "report")
        => /\ pc = "idle"
           /\ assessment_phase = "scenario"
           /\ ~too_short(Stored(responses, "scenario"))]_vars
  /\ [](report_action = "rejected" =>
          /\ assessment_phase = "scenario"
          /\ detailed_report = << >>
          /\ too_short(responses["scenario"])
          /\ generated["report"] = 0)

\* C26 witness: the submit has just refused the padded answer of 99
\* characters, which is still stored, and no report exists.
C26_ShortAnswerRefused ==
  /\ pc = "idle"
  /\ report_action = "rejected"
  /\ assessment_phase = "scenario"
  /\ responses["scenario"] = Ans_padded
  /\ detailed_report = << >>

\* C27: on a drawn MCQ screen the back button to the Yes/No/Maybe screen can
\* be pressed, and on a drawn scenario screen the back button to the MCQ
\* screen, also when the generator of the screen has just failed and its cache
\* is empty.
C27_BackAlwaysEnabled ==
  /\ (Ready /\ assessment_phase = "mcq") => ENABLED BackMCQ
  /\ (Ready /\ assessment_phase = "scenario") => ENABLED BackScenario

\* the answers stored for a question screen cover q0..q6
SevenAnswers(phase) ==
  /\ phase \in DOMAIN responses
  /\ \A k \in 1..Len(QKeys) : QKeys[k] \in DOMAIN responses[phase]

\* the report generator is running or about to resume
ReportInProgress == pc \in {"call", "ret"} /\ caller = "report"

\* C28: whenever the phase is complete the session holds a full assessment:
\* seven cached Yes/No/Maybe questions and an answer for each of q0..q6 that
\* is one of the three options of a language, seven cached MCQ questions with
\* four options each and an answer for each of q0..q6 that is one of the
\* options of its question, a scenario of at least 150 characters, a scenario
\* answer that passes the length test of the submit button, a profile whose
\* four required fields are not empty, and a report that is not empty; the
\* answers do not change while the report is generated, when it is stored, or
\* afterwards while the phase stays complete.
C28_CompleteIsFull ==
  /\ [](assessment_phase = "complete" =>
          /\ Len(yes_no_questions) = 7
          /\ SevenAnswers("yes_no")
          /\ \A k \in 1..Len(QKeys) :
               \E l \in {"en", "ar"} : InSeq(responses["yes_no"][QKeys[k]], YNOptions(l))
          /\ Len(mcq_questions) = 7
          /\ SevenAnswers("mcq")
          /\ \A k \in 1..Len(QKeys) :
               /\ Len(MCQOptionLists(mcq_questions)[k]) = 4
               /\ InSeq(responses["mcq"][QKeys[k]], MCQOptionLists(mcq_questions)[k])
          /\ Len(scenario_question) >= scenario_min_len
          /\ "scenario" \in DOMAIN responses
          /\ ~too_short(responses["scenario"])
          /\ user_profile # << >>
          /\ all_required(user_profile.name, user_profile.current_position,
                          user_profile.industry, user_profile.country)
          /\ detailed_report # << >>)
  /\ [][(ReportInProgress \/ assessment_phase' = "complete") =>
          responses' = responses]_vars

\* C28 witness: a complete assessment in which the user chose the second
\* option of the first Yes/No/Maybe question and of the first MCQ question.
C28_CompleteWithChoices ==
  /\ assessment_phase = "complete"
  /\ pc = "idle"
  /\ responses["yes_no"]["q0"] = CONTENT("en").no
  /\ responses["mcq"]["q0"] = MCQOptionLists(mcq_questions)[1][2]
  /\ responses["mcq"]["q0"] # MCQOptionLists(mcq_questions)[1][1]
  /\ detailed_report # << >>

\* C29: on every drawn Yes/No/Maybe or MCQ screen with cached questions the
\* question loop has completed: each answer stored for a question is among
\* the options that the screen offers for it.
C29_RendersComplete ==
  (pc = "idle" /\ assessment_engine # None) =>
    /\ (assessment_phase = "yes_no" /\ yes_no_questions # << >>) =>
         RadiosOk(responses, "yes_no", YNOptionLists(yes_no_questions, language))
    /\ (assessment_phase = "mcq" /\ mcq_questions # << >>) =>
         RadiosOk(responses, "mcq", MCQOptionLists(mcq_questions))

\* C30: whenever the phase is complete the report screen can be drawn from the
\* stored report without an error: the start time is set, and the overall
\* score, the pillar breakdown, the response-type insights and the development
\* plan are mappings and the recommendations a list.
C30_ReportsRender ==
  assessment_phase = "complete" =>
    /\ start_time # "None"
    /\ detailed_report[K_overall_leadership_score].t = "dict"
    /\ detailed_report[K_leadership_profile_breakdown].t = "dict"
    /\ detailed_report[K_detailed_insights].t = "dict"
    /\ detailed_report[K_personalized_recommendations].t = "list"
    /\ detailed_report[K_personal_development_plan].t = "dict"
    /\ ~display_detailed_report_raises(detailed_report, language, start_time)

====
